---- MODULE Spec2Model ----
(***************************************************************************)
(* Verification model of the concurrent B+ tree index of the bustub        *)
(* storage core (src/src/storage/page/b_plus_tree_leaf_page.cpp, second    *)
(* BPlusTree definition, lines 733-1568, with the leaf page of lines 1-98, *)
(* the internal page of src/src/container/hash/extendible_hash_table.cpp,  *)
(* lines 180-300, and the index iterator).                                 *)
(*                                                                         *)
(* Pages are kept in an ideal page store: FetchPage returns the page with  *)
(* the given id, NewPage hands out zeroed pages with increasing ids, and   *)
(* no page is ever evicted.  Latches are modelled per page id and for the  *)
(* root latch; a thread step runs from one blocking latch acquisition to   *)
(* the next one.                                                           *)
(*                                                                         *)
(* The buffer pool manager (buffer_pool_manager_instance.cpp, lines        *)
(* 115-262), its LRU-K replacer (lru_k_replacer.cpp 161-272 and            *)
(* lru_k_replacer.h) and its page table (extendible_hash_table.cpp 24-170) *)
(* are modelled on their own, as records transformed by one operator per   *)
(* member function: SpecPool drives the manager, SpecLRU the replacer,     *)
(* SpecHash the hash table, and SpecPage the ordered insert of one tree    *)
(* page.                                                                   *)
(***************************************************************************)
EXTENDS Integers, Sequences, FiniteSets, TLC

\* ------------------------------------------------------------------ bounds
NumThreads == 2
MaxKey == 4
MaxVal == 2
MaxOps == 5
MaxConcOps == 4
DeepMaxKey == 8
DeepPreload == 7
DeepOps == 3
PoolSize == 2
NumPages == 3
MaxData == 1
MaxPoolOps == 6
ReplacerK == 2
bucket_size_ == 2
MaxReplacerK == 3
MaxLruOps == 5
MaxHashKey == 4
MaxHashVal == 2
MaxHashOps == 5
MaxPageKey == 4
MaxPageSize == 3

\* ------------------------------------------------------- program constants
INVALID_PAGE_ID == -1
leaf_max_size_ == 3
internal_max_size_ == 3

Threads == 1 .. NumThreads
Keys == 1 .. MaxKey
Vals == 1 .. MaxVal
NoVal == 0
NullPage == 0
NoThread == 0

Max2(a, b) == IF a > b THEN a ELSE b
Min2(a, b) == IF a < b THEN a ELSE b
ArrCap == Max2(leaf_max_size_, internal_max_size_) + 2
SetMin(S) == CHOOSE x \in S : \A y \in S : x <= y
Range(s) == {s[i] : i \in 1 .. Len(s)}
\* The keys of a set in ascending order.
RECURSIVE Ascending(_)
Ascending(S) ==
  IF S = {} THEN << >> ELSE << SetMin(S) >> \o Ascending(S \ {SetMin(S)})
\* Every key a run can use: the domain of the key-indexed history variables.
KeyDomain == 1 .. Max2(MaxKey, DeepMaxKey)

\* -------------------------------------------------------------- page layout
ZeroEntry == [k |-> 0, v |-> 0]
ZeroArr == [i \in 1 .. ArrCap |-> ZeroEntry]
\* A frame after ResetMemory: all zero bytes (page type 0 is neither LEAF nor INTERNAL).
ZeroPage ==
  [type |-> "INVALID", size |-> 0, max_size |-> 0, page_id |-> 0,
   parent |-> 0, next |-> 0, arr |-> ZeroArr]

LeafInit(page_id, parent_id, max_size) ==
  [type |-> "LEAF", size |-> 0, max_size |-> max_size, page_id |-> page_id,
   parent |-> parent_id, next |-> INVALID_PAGE_ID, arr |-> ZeroArr]

InternalInit(page_id, parent_id, max_size) ==
  [type |-> "INTERNAL", size |-> 0, max_size |-> max_size, page_id |-> page_id,
   parent |-> parent_id, next |-> 0, arr |-> ZeroArr]

IsLeafPage(p) == p.type = "LEAF"
IsRootPage(p) == p.parent = INVALID_PAGE_ID
GetMinSize(p) == (p.max_size + 1) \div 2

KeyAt(p, index) == p.arr[index + 1].k
ValueAt(p, index) == p.arr[index + 1].v
SetKV(p, index, key, value) == [p EXCEPT !.arr[index + 1] = [k |-> key, v |-> value]]
SetKeyAt(p, index, key) == [p EXCEPT !.arr[index + 1].k = key]
SetValueAt(p, index, value) == [p EXCEPT !.arr[index + 1].v = value]

\* The ordered insert shared by the leaf page (first = 0) and the internal page
\* (first = 1): the loop stops at the FIRST slot i >= first with key > KeyAt(i),
\* shifts the slots above i + 1 one place up and writes the entry at i + 1; when no
\* slot has a smaller key nothing is written and the size stays.
InsertFrom(p, key, value, first) ==
  LET size == p.size
      hits == {i \in first .. size - 1 : key > KeyAt(p, i)}
  IN IF hits = {} THEN p
     ELSE LET i == SetMin(hits)
              shifted == [j \in 1 .. ArrCap |->
                            IF j - 1 > i + 1 /\ j - 1 <= size
                              THEN p.arr[j - 1] ELSE p.arr[j]]
          IN SetKV([p EXCEPT !.arr = shifted, !.size = size + 1], i + 1, key, value)

LeafInsert(p, key, value) == InsertFrom(p, key, value, 0)
InternalInsert(p, key, value) == InsertFrom(p, key, value, 1)

\* MoveSplitedData: the first (size + 1) / 2 entries stay, the rest is copied to
\* the front of the target leaf.  Returns <<this page, target page>>.
MoveSplitedData(p, target) ==
  LET old_size == p.size
      offset == (old_size + 1) \div 2
      tarr == [j \in 1 .. ArrCap |->
                 IF j - 1 + offset < old_size THEN p.arr[j + offset] ELSE target.arr[j]]
  IN << [p EXCEPT !.size = offset],
        [target EXCEPT !.arr = tarr, !.size = old_size - offset] >>

\* RemoveAt: shifts the tail one slot down, size - 1.
RemoveAt(p, index) ==
  [p EXCEPT !.arr = [j \in 1 .. ArrCap |->
                       IF j - 1 >= index /\ j - 1 < p.size - 1 THEN p.arr[j + 1] ELSE p.arr[j]],
            !.size = p.size - 1]

ArrayIndex(p, child_id) ==
  LET hits == {i \in 0 .. p.size - 1 : ValueAt(p, i) = child_id}
  IN IF hits = {} THEN -1 ELSE SetMin(hits)

\* Leaf page Remove(key): erases the entry of the key if the page holds it.
LeafRemove(p, key) ==
  LET hits == {i \in 0 .. p.size - 1 : KeyAt(p, i) = key}
  IN IF hits = {} THEN p ELSE RemoveAt(p, SetMin(hits))

\* Leaf page Lowerbound(key): the first index whose key is >= key, size if none.
Lowerbound(p, key) ==
  LET hits == {i \in 0 .. p.size - 1 : KeyAt(p, i) >= key}
  IN IF hits = {} THEN p.size ELSE SetMin(hits)

\* The linear scan of a leaf in GetValue and in Insert's duplicate check:
\* the value of the first slot holding the key, NoVal if there is none.
LeafFind(p, key) ==
  LET hits == {i \in 0 .. p.size - 1 : KeyAt(p, i) = key}
  IN IF hits = {} THEN NoVal ELSE ValueAt(p, SetMin(hits))

\* The child GetLeafPage descends into from an internal page.
ChildFor(p, key) ==
  LET hits == {i \in 1 .. p.size - 1 : KeyAt(p, i) > key}
  IN IF hits = {} THEN ValueAt(p, p.size - 1) ELSE ValueAt(p, SetMin(hits) - 1)

\* ------------------------------------------------------------------ latches
\* A reader/writer latch: the writer (NoThread if none) and each thread's shared holds.
FreeLatch == [w |-> NoThread, r |-> [t \in Threads |-> 0]]
CanR(l) == l.w = NoThread
CanW(l) == l.w = NoThread /\ \A t \in Threads : l.r[t] = 0
RLock(l, t) == [l EXCEPT !.r[t] = @ + 1]
WLock(l, t) == [l EXCEPT !.w = t]
WUnlock(l, t) == IF l.w = t THEN [l EXCEPT !.w = NoThread] ELSE l

\* RUnlock by a thread that holds the latch shared gives one hold back.  Called by a
\* thread with no shared hold it is undefined; the two behaviours of the builds are
\* "release" (an rwlock whose unlock does not look at the mode: the exclusive hold,
\* or else one shared hold, is given up) and "keep" (a counting latch: the holds of
\* the latch stay as they are).
UBOutcomes == {"release", "keep"}
RUnlock(l, t, ub) ==
  IF l.r[t] > 0 THEN [l EXCEPT !.r[t] = @ - 1]
  ELSE IF ub = "keep" THEN l
  ELSE IF l.w # NoThread THEN [l EXCEPT !.w = NoThread]
  ELSE IF \E u \in Threads : l.r[u] > 0
         THEN [l EXCEPT !.r[SetMin({u \in Threads : l.r[u] > 0})] = @ - 1]
  ELSE l

\* -------------------------------------------------------------------- state
VARIABLES
  pages,          \* the page store: page id -> page contents (ids 1 .. Len(pages))
  latch,          \* page id -> the latch of the page's frame
  root_page_id_,  \* BPlusTree::root_page_id_
  root_latch_,    \* BPlusTree::root_latch_
  th,             \* per thread: the running operation, its position and its locals
  nops,           \* number of operations started
  model,          \* history: key -> value of the Insert that returned true, NoVal once removed
  insCount,       \* history: key -> number of Insert calls started for it (capped at 2)
  anyRemove,      \* history: some Remove call has been started
  last,           \* history: the operation that returned last, with its result
  anomaly         \* history: a latch was released by a thread that did not hold it

vars == << pages, latch, root_page_id_, root_latch_, th, nops, model, insCount,
           anyRemove, last, anomaly >>

NoIter == [pg_id |-> INVALID_PAGE_ID, idx |-> 0, leaf |-> NullPage]
NoPre == [k \in KeyDomain |-> NoVal]

\* History of a leaf split: the leaf and the new leaf, and the leaf as Insert left
\* it when it reached leaf_max_size_.
NoLeafSplit == [old |-> NullPage, new |-> NullPage, full |-> ZeroPage]

\* History of an internal split (the last one of the operation): the node and its new
\* sibling, the node as Insert left it above internal_max_size_, and the key that
\* went up as the sibling's separator.
NoInternalSplit == [node |-> NullPage, sib |-> NullPage, full |-> ZeroPage, up |-> 0]

\* History of a borrow: the underflowing page, the lender and the other ids GetSiblings
\* found, and the three pages TryBorrow works on as they were before it.
NoBorrow ==
  [page |-> NullPage, sib |-> NullPage, left |-> NullPage, is_left |-> FALSE,
   parent |-> NullPage, pre_page |-> ZeroPage, pre_sib |-> ZeroPage,
   pre_parent |-> ZeroPage]

IdleThread ==
  [pc |-> "idle", op |-> "none", key |-> 0, val |-> 0, cur |-> 0, prev |-> 0,
   ps |-> << >>, del |-> << >>, hu |-> 0, left |-> 0, right |-> 0,
   old_node |-> 0, new_node |-> 0, split |-> 0, it |-> NoIter, out |-> << >>,
   pre |-> NoPre, must |-> NoVal, stored |-> {}, lsplit |-> NoLeafSplit,
   isplit |-> NoInternalSplit, pinned |-> << >>, over |-> FALSE, dirtied |-> {},
   pages0 |-> << >>, borrow |-> NoBorrow, merges |-> << >>]

\* History of HandleUnderflow's root case: the root page it found underflowing,
\* whether that was a leaf, and the child slot 0 of an internal root named.
NoRootChange == [old |-> NullPage, leaf |-> FALSE, child |-> NullPage]

NoLast ==
  [t |-> NoThread, op |-> "none", key |-> 0, val |-> 0, ret |-> FALSE, found |-> NoVal,
   out |-> << >>, pre |-> NoPre, must |-> NoVal, stored |-> {}, lsplit |-> NoLeafSplit,
   isplit |-> NoInternalSplit, pinned |-> << >>, over |-> FALSE, cleanmod |-> {},
   deleted |-> {}, del_failed |-> {}, del_before_release |-> FALSE,
   borrow |-> NoBorrow, merges |-> << >>, root_change |-> NoRootChange]

IsEmpty(root) == root = INVALID_PAGE_ID

\* FetchPage hands out a usable tree page only for the id of a live tree page.
ValidPage(pgs, pid) == pid \in DOMAIN pgs /\ pgs[pid].type \in {"LEAF", "INTERNAL"}
\* An internal page that GetLeafPage can take a child of.
Walkable(p) == p.type = "INTERNAL" /\ p.size >= 1 /\ p.size <= ArrCap

\* GetLeafPage followed by the leaf scan of GetValue, without the latching: the value
\* a point lookup of the key finds in the given tree (NoVal if none or if the descent
\* runs into a page that is no tree page).
RECURSIVE FindLeaf(_, _, _, _)
FindLeaf(pgs, pid, key, fuel) ==
  IF fuel = 0 \/ ~ValidPage(pgs, pid) THEN NullPage
  ELSE IF IsLeafPage(pgs[pid]) THEN pid
  ELSE IF ~Walkable(pgs[pid]) THEN NullPage
  ELSE FindLeaf(pgs, ChildFor(pgs[pid], key), key, fuel - 1)

GetValueOf(pgs, root, key) ==
  LET leaf == FindLeaf(pgs, root, key, Len(pgs))
  IN IF leaf = NullPage THEN NoVal ELSE LeafFind(pgs[leaf], key)

Contents(pgs, root) == [k \in KeyDomain |-> GetValueOf(pgs, root, k)]

\* Begin(): the descent along ValueAt(0) to the leftmost leaf (no page is latched).
RECURSIVE Leftmost(_, _, _)
Leftmost(pgs, pid, fuel) ==
  IF fuel = 0 \/ ~ValidPage(pgs, pid) THEN NullPage
  ELSE IF IsLeafPage(pgs[pid]) THEN pid
  ELSE IF ~Walkable(pgs[pid]) THEN NullPage
  ELSE Leftmost(pgs, ValueAt(pgs[pid], 0), fuel - 1)

\* The tree pages reachable from the page pid through child pointers.
RECURSIVE Subtree(_, _, _)
Subtree(pgs, pid, fuel) ==
  IF fuel = 0 \/ ~ValidPage(pgs, pid) THEN {}
  ELSE IF IsLeafPage(pgs[pid]) THEN {pid}
  ELSE {pid} \cup UNION {Subtree(pgs, ValueAt(pgs[pid], i), fuel - 1) :
                           i \in 0 .. Min2(pgs[pid].size, ArrCap) - 1}

LeavesOf(pgs, root) == {p \in Subtree(pgs, root, Len(pgs)) : IsLeafPage(pgs[p])}
KeysIn(p) == {KeyAt(p, i) : i \in 0 .. p.size - 1}
\* The keys stored in the leaves of the tree.
StoredKeys(pgs, root) == UNION {KeysIn(pgs[p]) : p \in LeavesOf(pgs, root)}

\* The state one thread step works on: the shared state and the thread's own record.
CurS(t) ==
  [pages |-> pages, latch |-> latch, root |-> root_page_id_, rl |-> root_latch_,
   me |-> th[t], model |-> model, last |-> last, anomaly |-> anomaly]

Apply(t, S) ==
  /\ pages' = S.pages
  /\ latch' = S.latch
  /\ root_page_id_' = S.root
  /\ root_latch_' = S.rl
  /\ th' = [th EXCEPT ![t] = S.me]
  /\ model' = S.model
  /\ last' = S.last
  /\ anomaly' = S.anomaly

\* The pins of the running operation (history): pinned is the bag of the pages it
\* has obtained and not yet given back, over says that it has unpinned a page it
\* held no pin of, dirtied are the pages it has unpinned with is_dirty = true.
RECURSIVE RemoveOne(_, _)
RemoveOne(seq, x) ==
  IF seq = << >> THEN << >>
  ELSE IF Head(seq) = x THEN Tail(seq)
  ELSE << Head(seq) >> \o RemoveOne(Tail(seq), x)

\* BufferPoolManager::FetchPage as the tree sees it: one pin more on the page.
FetchPage(S, page_id) == [S EXCEPT !.me.pinned = Append(@, page_id)]

\* BufferPoolManager::UnpinPage as the tree sees it: one pin less, the dirty flag set
\* on request; without a pin to give back nothing changes.
UnpinPage(S, page_id, is_dirty) ==
  IF page_id \in Range(S.me.pinned)
    THEN [S EXCEPT !.me.pinned = RemoveOne(@, page_id),
                   !.me.dirtied = IF is_dirty THEN @ \cup {page_id} ELSE @]
  ELSE [S EXCEPT !.me.over = TRUE]

\* FetchPage followed by UnpinPage for every page of a set (SetParentPageId loops).
RECURSIVE FetchUnpinAll(_, _, _)
FetchUnpinAll(S, ids, is_dirty) ==
  IF ids = {} THEN S
  ELSE LET p == SetMin(ids)
       IN FetchUnpinAll(UnpinPage(FetchPage(S, p), p, is_dirty), ids \ {p}, is_dirty)

\* BufferPoolManager::NewPage on the page store: a zeroed page with the next id,
\* pinned.
NextPageId(S) == Len(S.pages) + 1
NewPage(S) ==
  FetchPage([S EXCEPT !.pages = Append(@, ZeroPage), !.latch = Append(@, FreeLatch)],
            NextPageId(S))

\* An uncaught exception or an invalid memory access ends the thread where it is;
\* the latches it holds stay held.
Crash(S) == [S EXCEPT !.me.pc = "crashed"]

\* The operation returns to its caller.
Finish(S, t, ret, found) ==
  LET me == S.me
  IN [S EXCEPT
        !.me = IdleThread,
        !.model = IF me.op = "Insert" /\ ret /\ @[me.key] = NoVal
                    THEN [@ EXCEPT ![me.key] = me.val]
                  ELSE IF me.op = "Remove" THEN [@ EXCEPT ![me.key] = NoVal]
                  ELSE @,
        !.last = [t |-> t, op |-> me.op, key |-> me.key, val |-> me.val, ret |-> ret,
                  found |-> found, out |-> me.out, pre |-> me.pre, must |-> me.must,
                  stored |-> me.stored, lsplit |-> me.lsplit,
                  isplit |-> me.isplit, pinned |-> me.pinned, over |-> me.over,
                  cleanmod |-> {p \in DOMAIN S.pages :
                                  /\ p \notin me.dirtied
                                  /\ S.pages[p] # ZeroPage
                                  /\ \/ p \notin DOMAIN me.pages0
                                     \/ S.pages[p] # me.pages0[p]},
                  deleted |-> {}, del_failed |-> {}, del_before_release |-> FALSE,
                  borrow |-> me.borrow, merges |-> me.merges,
                  root_change |-> NoRootChange]]

IsPageSafe(tree_page, op) ==
  IF op = "Insert" THEN
    IF IsLeafPage(tree_page) THEN tree_page.size < tree_page.max_size - 1
    ELSE tree_page.size < tree_page.max_size
  ELSE IF op = "Remove" THEN
    IF IsRootPage(tree_page) THEN
      IF IsLeafPage(tree_page) THEN tree_page.size > 1 ELSE tree_page.size > 2
    ELSE tree_page.size > GetMinSize(tree_page)
  ELSE TRUE

\* ReleaseWLatches: empties the page set front to back; the nullptr sentinel stands
\* for the exclusive hold of the root latch, every other element is W-unlatched.
RECURSIVE UnpinEach(_, _)
UnpinEach(S, ps) ==
  IF ps = << >> THEN S
  ELSE UnpinEach(IF Head(ps) = NullPage THEN S ELSE UnpinPage(S, Head(ps), TRUE),
                 Tail(ps))

ReleaseWLatches(S, t) ==
  LET held == Range(S.me.ps)
  IN UnpinEach(
       [S EXCEPT
          !.rl = IF NullPage \in held THEN WUnlock(@, t) ELSE @,
          !.latch = [p \in DOMAIN S.latch |->
                       IF p \in held THEN WUnlock(S.latch[p], t) ELSE S.latch[p]],
          !.me.ps = << >>,
          !.anomaly = \/ @
                      \/ NullPage \in held /\ S.rl.w # t
                      \/ \E p \in held \ {NullPage} : S.latch[p].w # t],
       S.me.ps)

\* GetPageFromTrx finds the page in the page set or throws.
InPageSet(S, page_id) == page_id # NullPage /\ page_id \in Range(S.me.ps)

\* ------------------------------------------------------------------- Insert
\* Insert, the split propagation loop (3.1 / 3.2) from the point where old_node has
\* been split and new_node with first key split waits to be linked into the parent.
\* The root case gives up "the shared hold" of the root latch and then blocks on the
\* exclusive acquisition, which is the next step of the thread.
RECURSIVE PropagateSplit(_, _, _, _, _, _)
PropagateSplit(S, t, old, new, split, ub) ==
  LET oldp == S.pages[old]
  IN IF IsRootPage(oldp)
       THEN [S EXCEPT !.rl = RUnlock(@, t, ub), !.me.pc = "ins_root_wlock",
                      !.me.old_node = old, !.me.new_node = new, !.me.split = split]
     ELSE IF ~InPageSet(S, oldp.parent) THEN Crash(S)
     ELSE
       LET parent_id == oldp.parent
           parent1 == InternalInsert(S.pages[parent_id], split, new)
           S1 == [S EXCEPT !.pages[parent_id] = parent1, !.pages[new].parent = parent_id]
       IN IF parent1.size <= internal_max_size_
            THEN Finish(UnpinPage(UnpinPage(UnpinPage(ReleaseWLatches(S1, t),
                                                      S.me.lsplit.new, TRUE),
                                            parent_id, TRUE),
                                  new, TRUE),
                        t, TRUE, NoVal)
          ELSE
            LET sib_id == NextPageId(S1)
                S2 == NewPage(S1)
                offset == (parent1.size + 1) \div 2
                kids == {ValueAt(parent1, i) : i \in offset .. parent1.size - 1}
                sibarr == [j \in 1 .. ArrCap |->
                             IF j - 1 + offset < parent1.size
                               THEN parent1.arr[j + offset] ELSE ZeroEntry]
                sib == [InternalInit(sib_id, parent1.parent, internal_max_size_)
                          EXCEPT !.arr = sibarr, !.size = internal_max_size_ - offset]
                pages3 == [p \in DOMAIN S2.pages |->
                             IF p = sib_id THEN sib
                             ELSE IF p = parent_id THEN [parent1 EXCEPT !.size = offset]
                             ELSE IF p \in kids THEN [S2.pages[p] EXCEPT !.parent = sib_id]
                             ELSE S2.pages[p]]
            IN IF \E c \in kids : ~ValidPage(S2.pages, c) THEN Crash(S2)
               ELSE PropagateSplit(
                      UnpinPage(UnpinPage(FetchUnpinAll(
                        [S2 EXCEPT !.pages = pages3,
                                   !.me.isplit = [node |-> parent_id, sib |-> sib_id,
                                                  full |-> parent1,
                                                  up |-> KeyAt(sib, 0)]],
                        kids, TRUE), old, TRUE), new, TRUE),
                      t, parent_id, sib_id, KeyAt(sib, 0), ub)

\* Insert from the return of GetLeafPage: duplicate check, ordered insert into the
\* leaf, and the leaf split when the leaf has reached leaf_max_size_.
InsertAtLeaf(S, t, ub) ==
  LET leaf_id == S.me.cur
      leaf == S.pages[leaf_id]
      key == S.me.key
      leaf1 == LeafInsert(leaf, key, S.me.val)
  IN IF LeafFind(leaf, key) # NoVal
       THEN Finish(UnpinPage(ReleaseWLatches(S, t), leaf_id, FALSE), t, FALSE, NoVal)
     ELSE IF leaf1.size < leaf_max_size_
       THEN Finish(UnpinPage(ReleaseWLatches([S EXCEPT !.pages[leaf_id] = leaf1], t),
                             leaf_id, TRUE),
                   t, TRUE, NoVal)
     ELSE
       LET new_leaf_id == NextPageId(S)
           S1 == NewPage(S)
           new0 == [LeafInit(new_leaf_id, leaf1.parent, leaf_max_size_)
                      EXCEPT !.next = leaf1.next]
           mv == MoveSplitedData([leaf1 EXCEPT !.next = new_leaf_id], new0)
           S2 == [S1 EXCEPT !.pages[leaf_id] = mv[1], !.pages[new_leaf_id] = mv[2],
                            !.me.lsplit = [old |-> leaf_id, new |-> new_leaf_id,
                                           full |-> leaf1]]
       IN PropagateSplit(S2, t, leaf_id, new_leaf_id, KeyAt(mv[2], 0), ub)

\* A faulty second link of a new root: the leftmost leaf below new_node (the leaf the
\* operation created first when new_node is a leaf) in the place of new_node.
NewRootSecondChildLeaf(S) == Leftmost(S.pages, S.me.new_node, Len(S.pages))

\* The page the second slot of a new root points to: new_node->GetPageId().
NewRootSecondChild(S) == S.me.new_node

\* Insert 3.1 after root_latch_.WLock(): the new root over old_node and new_node.
InsertNewRoot(S, t) ==
  LET S0 == [S EXCEPT !.rl = WLock(@, t)]
      id == NextPageId(S0)
      S1 == NewPage(S0)
      old == S.me.old_node
      new == S.me.new_node
      new_root == [SetKV(SetKV(InternalInit(id, INVALID_PAGE_ID, internal_max_size_),
                               0, S.me.split, old), 1, S.me.split, NewRootSecondChild(S0))
                     EXCEPT !.size = 2]
      S2 == [S1 EXCEPT !.root = id, !.pages[id] = new_root,
                       !.pages[old].parent = id, !.pages[new].parent = id]
  IN Finish(UnpinPage(UnpinPage(ReleaseWLatches(S2, t), id, TRUE), new, TRUE),
            t, TRUE, NoVal)

\* Insert 1 after root_latch_.WLock(): the first leaf of an empty tree, or back to
\* the shared hold when another thread has created the root meanwhile.
InsertIntoEmpty(S, t) ==
  IF IsEmpty(S.root)
    THEN LET id == NextPageId(S)
             S1 == NewPage(S)
             leaf == [SetKV(LeafInit(id, INVALID_PAGE_ID, leaf_max_size_),
                            0, S.me.key, S.me.val) EXCEPT !.size = 1]
         IN Finish(UnpinPage([S1 EXCEPT !.root = id, !.pages[id] = leaf], id, FALSE),
                   t, TRUE, NoVal)
  ELSE [S EXCEPT !.me.pc = "ins_relock"]

\* ------------------------------------------------------------------- Remove
\* Remove from the return of HandleUnderflow: give the latches back, then call
\* DeletePage for the pages of the deleted set.  DeletePage resets the frame of a
\* page that is not pinned to zero bytes and refuses a pinned page.  The history
\* records the set, the pages DeletePage refused, and whether the page set had yet
\* to be released when DeletePage was called.
RemoveFinish(S, t) ==
  LET S1 == ReleaseWLatches(S, t)
      gone == Range(S.me.del)
      failed == {p \in gone : p \in Range(S1.me.pinned)}
      S2 == [S1 EXCEPT !.pages = [p \in DOMAIN S1.pages |->
                                    IF p \in gone \ failed THEN ZeroPage
                                    ELSE S1.pages[p]]]
  IN [Finish(S2, t, TRUE, NoVal) EXCEPT
        !.last.deleted = gone,
        !.last.del_failed = failed,
        !.last.del_before_release = (S1.me.ps # << >>)]

\* TryBorrow(page, sibling_page, parent_page, is_left_sibling): [ok, S].
TryBorrow(S, pid, sib_id, parent_id, is_left) ==
  IF sib_id = INVALID_PAGE_ID THEN [ok |-> FALSE, S |-> S]
  ELSE
    LET page == S.pages[pid]
        sib == S.pages[sib_id]
        parent == S.pages[parent_id]
        sibling_array_id ==
          IF is_left THEN sib.size - 1 ELSE IF IsLeafPage(page) THEN 0 ELSE 1
        \* parent_page->ArrayIndex(id) + is_left_sibling ? 0 : 1
        parent_array_id ==
          IF ArrayIndex(parent, pid) + (IF is_left THEN 1 ELSE 0) # 0 THEN 0 ELSE 1
    IN IF sib.size <= GetMinSize(sib) THEN [ok |-> FALSE, S |-> S]
       ELSE IF IsLeafPage(page) THEN
         LET bk == KeyAt(sib, sibling_array_id)
             page1 == LeafInsert(page, bk, ValueAt(sib, sibling_array_id))
             sib1 == LeafRemove(sib, bk)
             updated == IF is_left THEN KeyAt(page1, 0) ELSE KeyAt(sib1, 0)
         IN [ok |-> TRUE,
             S |-> [S EXCEPT !.pages[pid] = page1, !.pages[sib_id] = sib1,
                             !.pages[parent_id] = SetKeyAt(parent, parent_array_id, updated)]]
       ELSE
         LET updated == KeyAt(sib, sibling_array_id)
             page1 == IF is_left
                        THEN SetValueAt(InternalInsert(page, KeyAt(parent, parent_array_id),
                                                       ValueAt(page, 0)),
                                        0, ValueAt(sib, sibling_array_id))
                      ELSE [SetKV(page, page.size, KeyAt(parent, parent_array_id),
                                  ValueAt(sib, 0)) EXCEPT !.size = @ + 1]
             sibA == IF is_left THEN sib ELSE SetKV(sib, 0, KeyAt(sib, 0), ValueAt(sib, 1))
             child_id == IF is_left THEN ValueAt(page1, 0) ELSE ValueAt(page1, page1.size - 1)
             sib1 == RemoveAt(sibA, sibling_array_id)
             S1 == [S EXCEPT !.pages[pid] = page1, !.pages[sib_id] = sib1,
                             !.pages[parent_id] = SetKeyAt(parent, parent_array_id, updated)]
         IN IF ~ValidPage(S.pages, child_id) THEN [ok |-> TRUE, S |-> Crash(S1)]
            ELSE [ok |-> TRUE,
                  S |-> FetchUnpinAll([S1 EXCEPT !.pages[child_id].parent = pid],
                                      {child_id}, TRUE)]

\* The loops of MergePage: the ordered insert of the slots from .. size - 1 of the
\* right page into the left page.
RECURSIVE InsertAll(_, _, _, _)
InsertAll(left, right, i, first) ==
  IF i >= right.size THEN left
  ELSE InsertAll(InsertFrom(left, KeyAt(right, i), ValueAt(right, i), first),
                 right, i + 1, first)

\* History of one MergePage call: the three pages before and the left page and the
\* parent after it, and the children of the right page that do not name the left
\* page as their parent afterwards.
MergeRecord(pgs, pgs1, left_id, right_id, parent_id) ==
  [left |-> left_id, right |-> right_id, parent |-> parent_id,
   pre_left |-> pgs[left_id], pre_right |-> pgs[right_id], pre_parent |-> pgs[parent_id],
   post_left |-> pgs1[left_id], post_parent |-> pgs1[parent_id],
   strays |-> IF IsLeafPage(pgs[left_id]) THEN {}
              ELSE {c \in {ValueAt(pgs[right_id], i) : i \in 0 .. pgs[right_id].size - 1} :
                      pgs1[c].parent # left_id}]

\* MergePage(left_page, right_page, parent_page, trx).
MergePage(S, left_id, right_id, parent_id) ==
  LET left == S.pages[left_id]
      right == S.pages[right_id]
      parent == S.pages[parent_id]
      ridx == ArrayIndex(parent, right_id)
      parent1 == RemoveAt(parent, ridx)
      kids == {ValueAt(right, i) : i \in 0 .. right.size - 1}
      left1 == IF IsLeafPage(left)
                 THEN [InsertAll(left, right, 0, 0) EXCEPT !.next = right.next]
               ELSE InsertAll(InternalInsert(left, KeyAt(parent, ridx), ValueAt(right, 0)),
                              right, 1, 1)
      pages1 == [p \in DOMAIN S.pages |->
                   IF p = left_id THEN left1
                   ELSE IF p = parent_id THEN parent1
                   ELSE IF ~IsLeafPage(left) /\ p \in kids
                     THEN [S.pages[p] EXCEPT !.parent = left_id]   \* SetPageParentId
                   ELSE S.pages[p]]
  IN IF ridx < 1 \/ (~IsLeafPage(left) /\ \E c \in kids : ~ValidPage(S.pages, c))
       THEN Crash([S EXCEPT !.anomaly = TRUE])
     ELSE FetchUnpinAll(
            [S EXCEPT !.pages = pages1, !.me.del = Append(@, right_id),
                      !.me.merges = Append(@, MergeRecord(S.pages, pages1, left_id,
                                                          right_id, parent_id))],
            IF IsLeafPage(left) THEN {} ELSE kids, FALSE)

\* HandleUnderflow(page) up to its next latch acquisition.
HandleUnderflow(S, t, pid, ub) ==
  LET page == S.pages[pid]
  IN IF IsRootPage(page) THEN
       IF page.size > 1 \/ (IsLeafPage(page) /\ page.size = 1) THEN RemoveFinish(S, t)
       ELSE [S EXCEPT !.me.del = IF IsLeafPage(page) THEN Append(@, pid) ELSE @,
                      !.rl = RUnlock(@, t, ub),
                      !.me.pc = "hu_root_wlock", !.me.hu = pid]
     ELSE IF ~InPageSet(S, page.parent) THEN Crash(S)      \* GetPageFromTrx throws
     ELSE
       LET parent == S.pages[page.parent]
           idx == ArrayIndex(parent, pid)
           left == IF idx # 0 THEN ValueAt(parent, idx - 1) ELSE INVALID_PAGE_ID
           right == IF idx # parent.size - 1 THEN ValueAt(parent, idx + 1)
                    ELSE INVALID_PAGE_ID
       IN IF idx = -1 THEN Crash(S)                        \* "tree error"
          ELSE IF left = INVALID_PAGE_ID /\ right = INVALID_PAGE_ID THEN Crash(S)
          ELSE [S EXCEPT !.me.hu = pid, !.me.left = left, !.me.right = right,
                         !.me.pc = IF left # INVALID_PAGE_ID THEN "hu_latch_left"
                                   ELSE "hu_latch_right"]

\* HandleUnderflow once both siblings are latched: borrow, else merge and go on with
\* the parent.
HandleUnderflowLatched(S, t, ub) ==
  LET pid == S.me.hu
      left == S.me.left
      right == S.me.right
      parent_id == S.pages[pid].parent
      unl(SS, q) == IF q = INVALID_PAGE_ID THEN SS
                    ELSE UnpinPage([SS EXCEPT !.latch[q] = WUnlock(@, t)], q, TRUE)
      b1 == TryBorrow(S, pid, left, parent_id, TRUE)
      b2 == IF b1.ok THEN b1 ELSE TryBorrow(S, pid, right, parent_id, FALSE)
  IN IF b2.ok THEN
       IF b2.S.me.pc = "crashed" THEN b2.S
       ELSE LET sib_id == IF b1.ok THEN left ELSE right
                B == [b2.S EXCEPT !.me.borrow =
                        [page |-> pid, sib |-> sib_id, left |-> left, is_left |-> b1.ok,
                         parent |-> parent_id, pre_page |-> S.pages[pid],
                         pre_sib |-> S.pages[sib_id],
                         pre_parent |-> S.pages[parent_id]]]
            IN RemoveFinish(unl(unl(B, left), right), t)
     ELSE
       LET M == IF left # INVALID_PAGE_ID
                  THEN unl(MergePage(S, left, pid, parent_id), left)
                ELSE unl(MergePage(S, pid, right, parent_id), right)
           parent1 == M.pages[parent_id]
       IN IF M.me.pc = "crashed" THEN M
          ELSE IF parent1.size < GetMinSize(parent1) THEN HandleUnderflow(M, t, parent_id, ub)
          ELSE RemoveFinish(M, t)

\* HandleUnderflow, root case, after root_latch_.WLock().
RootUnderflow(S, t) ==
  LET S0 == [S EXCEPT !.rl = WLock(@, t)]
      page == S.pages[S.me.hu]
      child == ValueAt(page, 0)
      rc == [old |-> S.me.hu, leaf |-> IsLeafPage(page), child |-> child]
  IN IF IsLeafPage(page)
       THEN [RemoveFinish([S0 EXCEPT !.root = INVALID_PAGE_ID], t)
               EXCEPT !.last.root_change = rc]
     ELSE IF ~ValidPage(S.pages, child) THEN Crash([S0 EXCEPT !.root = child])
     ELSE [RemoveFinish(FetchUnpinAll([S0 EXCEPT !.root = child,
                                                 !.pages[child].parent = INVALID_PAGE_ID],
                                      {child}, TRUE), t)
             EXCEPT !.last.root_change = rc]

\* Remove from the return of GetLeafPage.
RemoveAtLeaf(S, t, ub) ==
  LET leaf_id == S.me.cur
      leaf1 == LeafRemove(S.pages[leaf_id], S.me.key)
      S1 == [S EXCEPT !.pages[leaf_id] = leaf1]
  IN IF leaf1.size < GetMinSize(leaf1) THEN HandleUnderflow(S1, t, leaf_id, ub)
     ELSE RemoveFinish(S1, t)

\* ------------------------------------------------------ GetValue and iterator
\* GetValue from the return of GetLeafPage: scan the leaf, R-unlatch it, return.
GetValueAtLeaf(S, t) ==
  LET found == LeafFind(S.pages[S.me.cur], S.me.key)
  IN Finish(UnpinPage([S EXCEPT !.latch[S.me.cur].r[t] = @ - 1], S.me.cur, FALSE),
            t, found # NoVal, found)

\* Begin(key) from the return of GetLeafPage: the iterator is built from the page id,
\* the lower bound index and the buffer pool; pg_ and leaf_page_ keep their nullptr.
BeginAtLeaf(S, t) ==
  [S EXCEPT !.me.it = [pg_id |-> S.me.cur,
                       idx |-> Lowerbound(S.pages[S.me.cur], S.me.key),
                       leaf |-> NullPage],
            !.me.pc = "scan_loop"]

\* Begin() after root_latch_.RLock().
BeginLeftmost(S, t) ==
  LET leaf == Leftmost(S.pages, S.root, Len(S.pages))
  IN IF IsEmpty(S.root)
       THEN [S EXCEPT !.rl = RUnlock(@, t, "keep"), !.me.it = NoIter,
                      !.me.pc = "scan_loop"]
     ELSE IF leaf = NullPage THEN Crash(S)
     ELSE [S EXCEPT !.me.it = [pg_id |-> leaf, idx |-> 0, leaf |-> NullPage],
                    !.me.pc = "scan_loop"]

\* IndexIterator::operator++ on an iterator whose leaf_page_ is set.
IteratorNext(pgs, it) ==
  IF it.pg_id = INVALID_PAGE_ID THEN it
  ELSE IF it.idx < pgs[it.leaf].size - 1 THEN [it EXCEPT !.idx = @ + 1]
  ELSE IF pgs[it.leaf].next = INVALID_PAGE_ID THEN [it EXCEPT !.idx = 0, !.leaf = NullPage]
  ELSE [it EXCEPT !.idx = 0, !.leaf = it.pg_id]

\* One round of "for (it = Begin(..); it != End(); ++it) out.push_back((*it).first)".
\* operator* and operator++ go through leaf_page_; through nullptr the thread dies.
ScanRound(S, t) ==
  LET it == S.me.it
  IN IF it.pg_id = INVALID_PAGE_ID /\ it.idx = 0 THEN Finish(S, t, TRUE, NoVal)
     ELSE IF it.leaf = NullPage \/ it.idx + 1 > ArrCap THEN Crash(S)
     ELSE [S EXCEPT !.me.out = Append(@, KeyAt(S.pages[it.leaf], it.idx)),
                    !.me.it = IteratorNext(S.pages, it)]

\* The code that follows the return of GetLeafPage in the running operation.
AtLeaf(S, t, ub) ==
  IF S.me.op = "Insert" THEN InsertAtLeaf(S, t, ub)
  ELSE IF S.me.op = "Remove" THEN RemoveAtLeaf(S, t, ub)
  ELSE IF S.me.op = "Begin" THEN BeginAtLeaf(S, t)
  ELSE GetValueAtLeaf(S, t)

\* One iteration of GetLeafPage from the latch acquisition on, first pass.
FirstPass(S, t, ub) ==
  LET cur == S.me.cur
      page == S.pages[cur]
      wmode == IsLeafPage(page) /\ S.me.op \in {"Insert", "Remove"}
      S0 == FetchPage(S, cur)
      S1 == IF wmode THEN [S0 EXCEPT !.latch[cur] = WLock(@, t), !.me.ps = Append(@, cur)]
            ELSE [S0 EXCEPT !.latch[cur] = RLock(@, t)]
      S2 == IF S.me.prev = NullPage THEN [S1 EXCEPT !.rl = RUnlock(@, t, ub)]
            ELSE UnpinPage([S1 EXCEPT !.latch[S.me.prev].r[t] = @ - 1],
                           S.me.prev, FALSE)
  IN IF IsLeafPage(page) THEN
       IF ~IsPageSafe(page, S.me.op)
         THEN [ReleaseWLatches(S2, t) EXCEPT !.me.pc = "sp_wlock"]
       ELSE AtLeaf(S2, t, ub)
     ELSE IF ~Walkable(page) THEN Crash(S2)
     ELSE [S2 EXCEPT !.me.prev = cur, !.me.cur = ChildFor(page, S.me.key)]

\* One iteration of GetLeafPage from the latch acquisition on, second pass.
SecondPass(S, t, ub) ==
  LET cur == S.me.cur
      page == S.pages[cur]
      S1 == [FetchPage(S, cur) EXCEPT !.latch[cur] = WLock(@, t)]
      S2 == IF IsPageSafe(page, S.me.op) THEN ReleaseWLatches(S1, t) ELSE S1
      S3 == [S2 EXCEPT !.me.ps = Append(@, cur)]
  IN IF IsLeafPage(page) THEN AtLeaf(S3, t, ub)
     ELSE IF ~Walkable(page) THEN Crash(S3)
     ELSE [S3 EXCEPT !.me.prev = cur, !.me.cur = ChildFor(page, S.me.key)]

\* GetLeafPage, second pass, after root_latch_.WLock(): the nullptr sentinel goes
\* into the page set and the descent restarts at the root.
SecondPassStart(S, t) ==
  [S EXCEPT !.rl = WLock(@, t), !.me.ps = Append(@, NullPage),
            !.me.cur = S.root, !.me.prev = NullPage, !.me.pc = "sp_latch"]

\* Insert / Remove / GetValue / Begin() after root_latch_.RLock().
AfterRootRLock(S, t) ==
  LET S0 == [S EXCEPT !.rl = RLock(@, t)]
      back == [S0 EXCEPT !.rl = RUnlock(@, t, "keep")]
  IN IF S.me.pc = "ins_relock" THEN
       [S0 EXCEPT !.me.pc = "fp_latch", !.me.cur = S.root, !.me.prev = NullPage]
     ELSE IF S.me.op = "Scan" THEN BeginLeftmost(S0, t)
     ELSE IF IsEmpty(S.root) THEN
       IF S.me.op = "Insert" THEN [back EXCEPT !.me.pc = "ins_wlock"]
       ELSE Finish(back, t, S.me.op = "Remove", NoVal)
     ELSE [S0 EXCEPT !.me.pc = "fp_latch", !.me.cur = S.root, !.me.prev = NullPage]

\* ------------------------------------------------------------ LRU-K replacer
\* LRUKReplacer (src/src/buffer/lru_k_replacer.cpp, second definition, lines
\* 161-272, with the frame record and MyCompare of lru_k_replacer.h 150-191).
\* The list lru and the map id2it are the function lru: frame id -> record (NoFrame
\* where id2it has no entry); tree is the multiset in iteration order.  Copies of a
\* frame record are member-wise: the copy of access_rec holds its size() elements,
\* so a value written behind size() (raw0) stays with the object it was written to.
NoTs == -1
NoFrame == [id |-> -1]

\* frame::frame(lruk) followed by the assignments of RecordAccess, lines 199-203.
NewFrame(fid, now) ==
  [id |-> fid, evictable |-> FALSE, n_access |-> 1, access_rec |-> << >>,
   cur |-> 0, earliest |-> 0, raw0 |-> now]

\* The copy constructor of frame.
CopyFrame(f) == [f EXCEPT !.raw0 = NoTs]

\* LRUKReplacer::LRUKReplacer; clock is the time in milliseconds that the last
\* RecordAccess read from the system clock.
NewReplacer(num_frames, k) ==
  [replacer_size_ |-> num_frames, k_ |-> k, curr_size_ |-> 0,
   lru |-> [f \in 0 .. num_frames |-> NoFrame], tree |-> << >>, clock |-> 1]

\* access_rec[i] reads behind size(): undefined.
ReadsBehind(f, i) == i >= Len(f.access_rec) /\ ~(i = 0 /\ f.raw0 # NoTs)

\* access_rec[i], g being what a read behind size() yields.
RecAt(f, i, g) ==
  IF i < Len(f.access_rec) THEN f.access_rec[i + 1]
  ELSE IF i = 0 /\ f.raw0 # NoTs THEN f.raw0
  ELSE g

\* MyCompare::operator().
MyCompare(f1, f2, k, g) ==
  IF f1.n_access < k /\ f2.n_access < k THEN RecAt(f1, 0, g) < RecAt(f2, 0, g)
  ELSE IF f1.n_access < k THEN TRUE
  ELSE IF f2.n_access < k THEN FALSE
  ELSE RecAt(f1, f1.earliest, g) < RecAt(f2, f1.earliest, g)

\* MyCompare(f1, f2) reads behind the size of a history.
CompareUndefined(f1, f2, k) ==
  IF f1.n_access < k /\ f2.n_access < k THEN ReadsBehind(f1, 0) \/ ReadsBehind(f2, 0)
  ELSE IF f1.n_access < k \/ f2.n_access < k THEN FALSE
  ELSE ReadsBehind(f1, f1.earliest) \/ ReadsBehind(f2, f1.earliest)

\* std::multiset::insert places x behind the elements that are not greater: the
\* position of the first element x is less than (Len + 1 if there is none).
TreeUpperBound(tree, x, k, g) ==
  SetMin({p \in 1 .. Len(tree) + 1 : p = Len(tree) + 1 \/ MyCompare(x, tree[p], k, g)})

\* std::multiset::lower_bound: the position of the first element not less than x.
TreeLowerBound(tree, x, k, g) ==
  SetMin({p \in 1 .. Len(tree) + 1 : p = Len(tree) + 1 \/ ~MyCompare(tree[p], x, k, g)})

\* A search of the tree for x up to position p compares x with an element in a way
\* that is undefined.
SearchUndefined(tree, x, p, k) ==
  \E q \in 1 .. Min2(p, Len(tree)) :
    CompareUndefined(x, tree[q], k) \/ CompareUndefined(tree[q], x, k)

TreeInsertAt(tree, p, x) ==
  [i \in 1 .. Len(tree) + 1 |->
     IF i < p THEN tree[i] ELSE IF i = p THEN x ELSE tree[i - 1]]

TreeEraseAt(tree, p) ==
  [i \in 1 .. Len(tree) - 1 |-> IF i < p THEN tree[i] ELSE tree[i + 1]]

\* "while (it->id != id) ++it" from position p: the position reached, Len + 1 when
\* the walk leaves the tree.
TreeWalk(tree, p, fid) ==
  SetMin({q \in p .. Len(tree) + 1 : q = Len(tree) + 1 \/ tree[q].id = fid})

\* What a replacer operation hands back: the replacer, how the call ended ("ok",
\* "throw", or "crash" for undefined behaviour that ends the process) and its result
\* (1 for a call that returns nothing).
Outcome(R, st, ret) == [r |-> R, st |-> st, ret |-> ret]

\* The outcomes of undefined behaviour in one call: the process dies ("crash"), or
\* it goes on and every read behind a history yields the same value g, which lies
\* below, among or above the times read so far (maxts being above them).
UBCrash == -1
GarbageTs(maxts) == 0 .. maxts
UndefinedOutcomes(maxts) == {UBCrash} \cup GarbageTs(maxts)

\* tree.insert(x) of RecordAccess, the tree being t0.
RecordInsert(R, t0, x, g) ==
  LET p == TreeUpperBound(t0, x, R.k_, IF g = UBCrash THEN 0 ELSE g)
  IN IF g = UBCrash /\ SearchUndefined(t0, x, p, R.k_) THEN Outcome(R, "crash", 0)
     ELSE Outcome([R EXCEPT !.tree = TreeInsertAt(t0, p, CopyFrame(x)),
                            !.lru[x.id] = CopyFrame(x)], "ok", 1)

\* LRUKReplacer::RecordAccess, the system clock having advanced by dt milliseconds
\* since the last reading.
LRUK_RecordAccess(R0, frame_id, dt, g) ==
  LET now == R0.clock + dt
      R == [R0 EXCEPT !.clock = now]
  IN
  IF frame_id > R0.replacer_size_ THEN Outcome(R0, "throw", 0)
  ELSE IF R.lru[frame_id] = NoFrame THEN
    IF g = UBCrash THEN Outcome(R, "crash", 0)
    ELSE RecordInsert(R, R.tree, NewFrame(frame_id, now), g)
  ELSE
    LET frame == R.lru[frame_id]
        gg == IF g = UBCrash THEN 0 ELSE g
        lb == TreeLowerBound(R.tree, frame, R.k_, gg)
        p == TreeWalk(R.tree, lb, frame_id)
        cur1 == frame.cur % R.k_
        upd == IF Len(frame.access_rec) < R.k_
                 THEN [frame EXCEPT !.access_rec = Append(@, now),
                                    !.n_access = @ + 1]
               ELSE [frame EXCEPT !.access_rec[cur1 + 1] = now,
                                  !.earliest = (cur1 + 1) % R.k_,
                                  !.cur = cur1 + 1,
                                  !.n_access = @ + 1]
    IN IF g = UBCrash /\ SearchUndefined(R.tree, frame, lb, R.k_)
         THEN Outcome(R, "crash", 0)
       ELSE IF p > Len(R.tree) THEN Outcome(R, "crash", 0)
       ELSE RecordInsert(R, TreeEraseAt(R.tree, p), upd, g)

\* SetEvictable without the test "frame.evictable ^ set_evictable" of line 241.
LRUK_SetEvictableNoFlip(R, frame_id, set_evictable) ==
  IF frame_id > R.replacer_size_ THEN Outcome(R, "throw", 0)
  ELSE IF R.lru[frame_id] = NoFrame THEN Outcome(R, "throw", 0)
  ELSE LET n == IF set_evictable THEN R.curr_size_ + 1 ELSE R.curr_size_ - 1
       IN Outcome([R EXCEPT !.curr_size_ = n,
                            !.lru[frame_id].evictable = set_evictable], "ok", 1)

\* LRUKReplacer::SetEvictable.
LRUK_SetEvictable(R, frame_id, set_evictable) ==
  IF frame_id > R.replacer_size_ THEN Outcome(R, "throw", 0)
  ELSE IF R.lru[frame_id] = NoFrame THEN Outcome(R, "throw", 0)
  ELSE LET frame == R.lru[frame_id]
           n == IF frame.evictable = set_evictable THEN R.curr_size_
                ELSE IF set_evictable THEN R.curr_size_ + 1
                ELSE R.curr_size_ - 1
       IN Outcome([R EXCEPT !.curr_size_ = n,
                            !.lru[frame_id].evictable = set_evictable], "ok", 1)

\* Evict without the test of the evictable flag of line 172: the first frame of
\* the tree is the victim.
LRUK_EvictFirst(R) ==
  IF R.curr_size_ > 0 /\ Len(R.tree) > 0
    THEN LET id == R.tree[1].id
         IN Outcome([R EXCEPT !.lru[id] = NoFrame,
                              !.tree = TreeEraseAt(R.tree, 1),
                              !.curr_size_ = @ - 1], "ok", id)
  ELSE Outcome(R, "ok", -1)

\* LRUKReplacer::Evict: ret is the evicted frame id, -1 when Evict returns false.
LRUK_Evict(R) ==
  LET cand == {p \in 1 .. Len(R.tree) : R.lru[R.tree[p].id].evictable}
  IN IF R.curr_size_ > 0 /\ cand # {}
       THEN LET p == SetMin(cand)
                id == R.tree[p].id
            IN Outcome([R EXCEPT !.lru[id] = NoFrame,
                                 !.tree = TreeEraseAt(R.tree, p),
                                 !.curr_size_ = @ - 1], "ok", id)
     ELSE Outcome(R, "ok", -1)

\* LRUKReplacer::Remove.
LRUK_Remove(R, frame_id, g) ==
  IF frame_id > R.replacer_size_ THEN Outcome(R, "throw", 0)
  ELSE IF R.lru[frame_id] = NoFrame THEN Outcome(R, "ok", 1)
  ELSE IF ~R.lru[frame_id].evictable THEN Outcome(R, "throw", 0)
  ELSE
    LET frm == R.lru[frame_id]
        lb == TreeLowerBound(R.tree, frm, R.k_, IF g = UBCrash THEN 0 ELSE g)
        p == TreeWalk(R.tree, lb, frame_id)
        R1 == [R EXCEPT !.curr_size_ = @ - 1]
    IN IF g = UBCrash /\ SearchUndefined(R.tree, frm, lb, R.k_)
         THEN Outcome(R1, "crash", 0)
       ELSE IF p > Len(R.tree) THEN Outcome(R1, "crash", 0)
       ELSE Outcome([R1 EXCEPT !.tree = TreeEraseAt(R.tree, p),
                               !.lru[frame_id] = NoFrame], "ok", 1)

\* LRUKReplacer::Size.
LRUK_Size(R) == R.curr_size_

\* ------------------------------------------------------ extendible hash table
\* ExtendibleHashTable (src/src/container/hash/extendible_hash_table.cpp, lines
\* 24-170).  A bucket pointer is an index into heap, the buckets made so far; slot i
\* of the directory is dir_[i + 1].
Pow2(n) == 2 ^ n

\* std::hash of an integer key: the key itself.
Hash(key) == key

\* Bucket::Bucket.
NewBucket(depth) == [depth_ |-> depth, list_ |-> << >>]

\* ExtendibleHashTable::ExtendibleHashTable.
NewHashTable(bucket_size) ==
  [global_depth_ |-> 0, bucket_size_ |-> bucket_size, num_buckets_ |-> 1,
   dir_ |-> << 1 >>, heap |-> << NewBucket(0) >>]

\* ExtendibleHashTable::IndexOf.
IndexOf(ht, key) == Hash(key) % Pow2(ht.global_depth_)

BucketOf(ht, idx) == ht.heap[ht.dir_[idx + 1]]

\* Bucket::IsFull.
BucketIsFull(ht, b) == Len(b.list_) = ht.bucket_size_

\* Bucket::Find: the value stored for key, -1 when Find returns false.
BucketFind(b, key) ==
  LET hit == {i \in 1 .. Len(b.list_) : b.list_[i][1] = key}
  IN IF hit = {} THEN -1 ELSE b.list_[SetMin(hit)][2]

\* Bucket::Remove.
BucketRemove(b, key) ==
  LET hit == {i \in 1 .. Len(b.list_) : b.list_[i][1] = key}
  IN IF hit = {} THEN b
     ELSE [b EXCEPT !.list_ = [i \in 1 .. Len(b.list_) - 1 |->
                                 IF i < SetMin(hit) THEN b.list_[i] ELSE b.list_[i + 1]]]

\* Bucket::Insert without the search for the key of lines 158-163.
BucketInsertAppend(ht, b, key, value) ==
  IF ~BucketIsFull(ht, b) THEN [b EXCEPT !.list_ = Append(@, << key, value >>)]
  ELSE b

\* Bucket::Insert.
BucketInsert(ht, b, key, value) ==
  LET hit == {i \in 1 .. Len(b.list_) : b.list_[i][1] = key}
  IN IF hit # {} THEN [b EXCEPT !.list_[SetMin(hit)] = << key, value >>]
     ELSE IF ~BucketIsFull(ht, b) THEN [b EXCEPT !.list_ = Append(@, << key, value >>)]
     ELSE b

\* ExtendibleHashTable::Find: the value, -1 when Find returns false.
HashFind(ht, key) == BucketFind(BucketOf(ht, IndexOf(ht, key)), key)

\* ExtendibleHashTable::Remove.
HashRemove(ht, key) ==
  LET ref == ht.dir_[IndexOf(ht, key) + 1]
  IN [ht EXCEPT !.heap[ref] = BucketRemove(@, key)]

\* What ExtendibleHashTable::Remove returns: 1 for true, 0 for false.
HashRemoveRet(ht, key) ==
  IF BucketFind(BucketOf(ht, IndexOf(ht, key)), key) # -1 THEN 1 ELSE 0

\* The items of a bucket whose hash has bit local_depth set (bit = 1) or clear.
RECURSIVE Redistribute(_, _, _, _, _)
Redistribute(ht, items, i, mask, bit) ==
  IF i > Len(items) THEN << >>
  ELSE LET rest == Redistribute(ht, items, i + 1, mask, bit)
       IN IF (Hash(items[i][1]) \div mask) % 2 = bit THEN << items[i] >> \o rest
          ELSE rest

\* A split whose loop over the directory (lines 116-122) hands the slots with bit
\* local_depth set to b and the others to a.
SplitBucketSwapped(ht, key) ==
  LET idx == IndexOf(ht, key)
      old == BucketOf(ht, idx)
      local_depth == old.depth_
      grow == local_depth = ht.global_depth_
      dir1 == IF grow THEN ht.dir_ \o ht.dir_ ELSE ht.dir_
      a == Len(ht.heap) + 1
      b == Len(ht.heap) + 2
      local_mask == Pow2(local_depth)
      start == Hash(key) % local_mask
      dir2 == [s \in 1 .. Len(dir1) |->
                 IF (s - 1) >= start /\ ((s - 1) - start) % local_mask = 0
                   THEN IF ((s - 1) \div local_mask) % 2 = 1 THEN b ELSE a
                 ELSE dir1[s]]
  IN [ht EXCEPT
        !.global_depth_ = IF grow THEN @ + 1 ELSE @,
        !.num_buckets_ = @ + 1,
        !.dir_ = dir2,
        !.heap = @ \o << [depth_ |-> local_depth + 1,
                          list_ |-> Redistribute(ht, old.list_, 1, local_mask, 1)],
                         [depth_ |-> local_depth + 1,
                          list_ |-> Redistribute(ht, old.list_, 1, local_mask, 0)] >>]

\* One round of the loop of Insert, lines 96-124: the bucket of key is split.
SplitBucket(ht, key) ==
  LET idx == IndexOf(ht, key)
      old == BucketOf(ht, idx)
      local_depth == old.depth_
      grow == local_depth = ht.global_depth_
      dir1 == IF grow THEN ht.dir_ \o ht.dir_ ELSE ht.dir_
      a == Len(ht.heap) + 1
      b == Len(ht.heap) + 2
      local_mask == Pow2(local_depth)
      start == Hash(key) % local_mask
      dir2 == [s \in 1 .. Len(dir1) |->
                 IF (s - 1) >= start /\ ((s - 1) - start) % local_mask = 0
                   THEN IF ((s - 1) \div local_mask) % 2 = 1 THEN a ELSE b
                 ELSE dir1[s]]
  IN [ht EXCEPT
        !.global_depth_ = IF grow THEN @ + 1 ELSE @,
        !.num_buckets_ = @ + 1,
        !.dir_ = dir2,
        !.heap = @ \o << [depth_ |-> local_depth + 1,
                          list_ |-> Redistribute(ht, old.list_, 1, local_mask, 1)],
                         [depth_ |-> local_depth + 1,
                          list_ |-> Redistribute(ht, old.list_, 1, local_mask, 0)] >>]

RECURSIVE SplitWhileFull(_, _)
SplitWhileFull(ht, key) ==
  IF BucketIsFull(ht, BucketOf(ht, IndexOf(ht, key)))
    THEN SplitWhileFull(SplitBucket(ht, key), key)
  ELSE ht

\* ExtendibleHashTable::Insert.
HashInsert(ht, key, value) ==
  LET idx == IndexOf(ht, key)
      ref == ht.dir_[idx + 1]
  IN IF BucketFind(ht.heap[ref], key) # -1
       THEN [ht EXCEPT !.heap[ref] = BucketInsert(ht, @, key, value)]
     ELSE LET h1 == SplitWhileFull(ht, key)
              r1 == h1.dir_[IndexOf(h1, key) + 1]
          IN [h1 EXCEPT !.heap[r1] = BucketInsert(h1, @, key, value)]

\* ------------------------------------------------------- buffer pool manager
\* BufferPoolManagerInstance (src/src/buffer/buffer_pool_manager_instance.cpp,
\* second definition, lines 115-262).  A pool is the record of the manager's
\* members and of the disk behind it; frame contents are one number, 0 for a
\* zeroed buffer.  A handler yields the pool it leaves, how the call ended ("ok",
\* "throw" for an exception that leaves the handler, "crash") and its result:
\* frame is the frame of the returned page (-1 for nullptr), ok the returned bool.
NullFrame == -1
ZeroData == 0

\* Page::Page.
FreshFrame ==
  [page_id_ |-> INVALID_PAGE_ID, pin_count_ |-> 0, is_dirty_ |-> FALSE,
   data_ |-> ZeroData]

\* BufferPoolManagerInstance::BufferPoolManagerInstance.
NewPool(pool_size, bucket_size, replacer_k, npages) ==
  [pool_size_ |-> pool_size,
   pages_ |-> [f \in 0 .. pool_size - 1 |-> FreshFrame],
   page_table_ |-> NewHashTable(bucket_size),
   replacer_ |-> NewReplacer(pool_size, replacer_k),
   free_list_ |-> [i \in 1 .. pool_size |-> i - 1],
   next_page_id_ |-> 0,
   disk |-> [p \in 0 .. npages - 1 |-> ZeroData]]

Result(B, st, frame, ok) == [b |-> B, st |-> st, frame |-> frame, ok |-> ok]

\* DiskManager::WritePage and DiskManager::ReadPage.
WritePage(B, page_id, data) ==
  IF page_id \in DOMAIN B.disk THEN [B EXCEPT !.disk[page_id] = data] ELSE B
ReadPage(B, page_id) ==
  IF page_id \in DOMAIN B.disk THEN B.disk[page_id] ELSE ZeroData

\* BufferPoolManagerInstance::AllocatePage.
AllocatePage(B) == [B EXCEPT !.next_page_id_ = @ + 1]

\* A page_reset that records the access first and leaves the frame evictable.
page_resetEvictable(B, fid, pgid, dt, g) ==
  LET B1 == [B EXCEPT !.pages_[fid] = [page_id_ |-> pgid, pin_count_ |-> 1,
                                       is_dirty_ |-> FALSE, data_ |-> ZeroData],
                      !.page_table_ = HashInsert(@, pgid, fid)]
      ra == LRUK_RecordAccess(B1.replacer_, fid, dt, g)
      se == LRUK_SetEvictable(ra.r, fid, TRUE)
  IN IF ra.st # "ok" THEN [b |-> [B1 EXCEPT !.replacer_ = ra.r], st |-> ra.st]
     ELSE [b |-> [B1 EXCEPT !.replacer_ = se.r], st |-> se.st]

\* BufferPoolManagerInstance::page_reset; yields the pool and how the call ended.
page_reset(B, fid, pgid, dt, g) ==
  LET B1 == [B EXCEPT !.pages_[fid] = [page_id_ |-> pgid, pin_count_ |-> 1,
                                       is_dirty_ |-> FALSE, data_ |-> ZeroData],
                      !.page_table_ = HashInsert(@, pgid, fid)]
      se == LRUK_SetEvictable(B1.replacer_, fid, FALSE)
      ra == LRUK_RecordAccess(se.r, fid, dt, g)
  IN IF se.st # "ok" THEN [b |-> B1, st |-> se.st]
     ELSE [b |-> [B1 EXCEPT !.replacer_ = ra.r], st |-> ra.st]

\* The frame id NewPgImp reads through its reference into the free list after
\* pop_front has destroyed the list node (lines 157-160): undefined.
DanglingOutcomes == {"intact", "crash"}

\* BufferPoolManagerInstance::NewPgImp.
NewPgImp(B, ub, dt, g) ==
  IF B.free_list_ # << >> THEN
    LET frame_id == Head(B.free_list_)
        B1 == [B EXCEPT !.free_list_ = Tail(@)]
        page_id == B1.next_page_id_
        pr == page_reset(AllocatePage(B1), frame_id, page_id, dt, g)
    IN IF ub = "crash" THEN Result(B1, "crash", NullFrame, FALSE)
       ELSE IF pr.st # "ok" THEN Result(pr.b, pr.st, NullFrame, FALSE)
       ELSE Result(pr.b, "ok", frame_id, TRUE)
  ELSE
    LET ev == LRUK_Evict(B.replacer_)
        B1 == [B EXCEPT !.replacer_ = ev.r]
        p == B1.pages_[ev.ret]
        page_id == B1.next_page_id_
        B2 == AllocatePage(B1)
        B3 == IF p.is_dirty_ THEN WritePage(B2, p.page_id_, p.data_) ELSE B2
        pr == page_reset(B3, ev.ret, page_id, dt, g)
    IN IF ev.ret = -1 THEN Result(B1, "ok", NullFrame, FALSE)
       ELSE IF pr.st # "ok" THEN Result(pr.b, pr.st, NullFrame, FALSE)
       ELSE Result(pr.b, "ok", ev.ret, TRUE)

\* BufferPoolManagerInstance::FetchPgImp.
FetchPgImp(B, page_id, dt, g) ==
  LET found == HashFind(B.page_table_, page_id)
  IN IF found # -1 THEN Result(B, "ok", found, TRUE)
     ELSE IF B.free_list_ # << >> THEN
       LET fid == Head(B.free_list_)
           pr == page_reset([B EXCEPT !.free_list_ = Tail(@)], fid, page_id, dt, g)
       IN IF pr.st # "ok" THEN Result(pr.b, pr.st, NullFrame, FALSE)
          ELSE Result([pr.b EXCEPT !.pages_[fid].data_ = ReadPage(pr.b, page_id)],
                      "ok", fid, TRUE)
     ELSE
       LET ev == LRUK_Evict(B.replacer_)
           fid == ev.ret
           B1 == [B EXCEPT !.replacer_ = ev.r]
           p == B1.pages_[fid]
           B2 == IF p.is_dirty_ THEN WritePage(B1, p.page_id_, p.data_) ELSE B1
           pr == page_reset(B2, fid, p.page_id_, dt, g)
       IN IF fid = -1 THEN Result(B1, "ok", NullFrame, FALSE)
          ELSE IF pr.st # "ok" THEN Result(pr.b, pr.st, NullFrame, FALSE)
          ELSE Result([pr.b EXCEPT !.pages_[fid].data_ = ReadPage(pr.b, page_id)],
                      "ok", fid, TRUE)

\* BufferPoolManagerInstance::UnpinPgImp.
UnpinPgImp(B, page_id, is_dirty) ==
  LET fid == HashFind(B.page_table_, page_id)
      B1 == [B EXCEPT !.pages_[fid].pin_count_ = @ - 1]
      se == IF B1.pages_[fid].pin_count_ = 0
              THEN LRUK_SetEvictable(B1.replacer_, fid, TRUE)
            ELSE Outcome(B1.replacer_, "ok", 1)
  IN IF fid = -1 THEN Result(B, "ok", NullFrame, FALSE)
     ELSE IF B.pages_[fid].pin_count_ <= 0 THEN Result(B, "ok", NullFrame, FALSE)
     ELSE IF se.st # "ok" THEN Result(B1, se.st, NullFrame, FALSE)
     ELSE Result([B1 EXCEPT !.replacer_ = se.r, !.pages_[fid].is_dirty_ = is_dirty],
                 "ok", NullFrame, TRUE)

\* BufferPoolManagerInstance::FlushPgImp.
FlushPgImp(B, page_id) ==
  LET fid == HashFind(B.page_table_, page_id)
  IN IF fid = -1 THEN Result(B, "ok", NullFrame, FALSE)
     ELSE Result([WritePage(B, page_id, B.pages_[fid].data_)
                    EXCEPT !.pages_[fid].is_dirty_ = FALSE], "ok", NullFrame, TRUE)

\* The entries of the page table, bucket after bucket in directory order.
TableEntries(ht) ==
  UNION {Range(ht.heap[ht.dir_[s]].list_) : s \in 1 .. Len(ht.dir_)}

\* BufferPoolManagerInstance::FlushAllPgsImp: the loop over the page table.
RECURSIVE FlushEntries(_, _)
FlushEntries(B, es) ==
  IF es = {} THEN B
  ELSE LET e == CHOOSE x \in es : TRUE
       IN FlushEntries([WritePage(B, e[1], B.pages_[e[2]].data_)
                          EXCEPT !.pages_[e[2]].is_dirty_ = FALSE], es \ {e})

FlushAllPgsImp(B) ==
  Result(FlushEntries(B, TableEntries(B.page_table_)), "ok", NullFrame, TRUE)

\* BufferPoolManagerInstance::DeletePgImp.
DeletePgImp(B, page_id, dt, g) ==
  LET fid == HashFind(B.page_table_, page_id)
      rm == LRUK_Remove(B.replacer_, fid, g)
      B1 == [B EXCEPT !.replacer_ = rm.r]
      B2 == [B1 EXCEPT !.page_table_ = HashRemove(@, page_id),
                       !.free_list_ = Append(@, fid)]
      pr == page_reset(B2, fid, page_id, dt, g)
  IN IF fid = -1 THEN Result(B, "ok", NullFrame, TRUE)
     ELSE IF B.pages_[fid].pin_count_ > 0 THEN Result(B, "ok", NullFrame, FALSE)
     ELSE IF rm.st # "ok" THEN Result(B1, rm.st, NullFrame, FALSE)
     ELSE IF pr.st # "ok" THEN Result(pr.b, pr.st, NullFrame, FALSE)
     ELSE Result([pr.b EXCEPT !.pages_[fid].pin_count_ = 0], "ok", NullFrame, TRUE)

\* ------------------------------------------------- buffer pool: state
VARIABLES
  pages_,         \* BufferPoolManagerInstance::pages_: frame id -> frame
  free_list_,     \* BufferPoolManagerInstance::free_list_
  page_table_,    \* BufferPoolManagerInstance::page_table_
  replacer_,      \* BufferPoolManagerInstance::replacer_, or the replacer on its own
  next_page_id_,  \* BufferPoolManagerInstance::next_page_id_
  disk,           \* the disk manager's file: page id -> contents
  bnops,          \* number of buffer pool or replacer calls made
  blast,          \* history: the buffer pool call made last, its result, the pool
                  \* before it, and whether a page id not yet issued was ever fetched
  rlast,          \* history: the replacer call made last, its result, the replacer before
  first_access,   \* history: frame id -> time of the first access of its record
  access_hist,    \* history: frame id -> times of the last k_ accesses of its record
  hmodel,         \* history: key -> the value a map holds for it after the calls made
                  \* on page_table_ as a hash table on its own (-1: none)
  hlast,          \* history: the hash table call made last and its result
  ppage,          \* a tree page on its own
  plast           \* history: the call made last on ppage, and the page before it

bvars == << pages_, free_list_, page_table_, replacer_, next_page_id_, disk, bnops,
            blast, rlast, first_access, access_hist, hmodel, hlast, ppage, plast >>

Frames == 0 .. PoolSize - 1
PageIds == 0 .. NumPages - 1
Ticks == {0, 1}

InitialPool == NewPool(PoolSize, bucket_size_, ReplacerK, NumPages)

\* The pool the variables hold.
CurPool ==
  [pool_size_ |-> PoolSize, pages_ |-> pages_, page_table_ |-> page_table_,
   replacer_ |-> replacer_, free_list_ |-> free_list_,
   next_page_id_ |-> next_page_id_, disk |-> disk]

NoBLast ==
  [op |-> "none", page_id |-> INVALID_PAGE_ID, is_dirty |-> FALSE, st |-> "ok",
   frame |-> NullFrame, ok |-> FALSE, pre |-> InitialPool, unissued |-> FALSE]

NoRLast ==
  [op |-> "none", frame_id |-> -1, flag |-> FALSE, st |-> "ok", ret |-> -1,
   pre |-> InitialPool.replacer_, first |-> [f \in 0 .. PoolSize |-> NoTs],
   hist |-> [f \in 0 .. PoolSize |-> << >>]]

HashKeys == 0 .. MaxHashKey
HashVals == 1 .. MaxHashVal

NoPLast == [op |-> "none", key |-> 0, value |-> 0, pre |-> ZeroPage]

NoHLast == [op |-> "none", key |-> -1, value |-> -1, ret |-> -1, present |-> FALSE]

\* The buffer pool as constructed around the replacer R and the page table ht, no
\* call made.
PoolInitOf(R, ht) ==
  /\ pages_ = InitialPool.pages_
  /\ free_list_ = InitialPool.free_list_
  /\ page_table_ = ht
  /\ replacer_ = R
  /\ next_page_id_ = InitialPool.next_page_id_
  /\ disk = InitialPool.disk
  /\ bnops = 0
  /\ blast = NoBLast
  /\ rlast = [NoRLast EXCEPT !.pre = R]
  /\ first_access = [f \in 0 .. PoolSize |-> NoTs]
  /\ access_hist = [f \in 0 .. PoolSize |-> << >>]
  /\ hmodel = [k \in HashKeys |-> -1]
  /\ hlast = NoHLast
  /\ ppage = ZeroPage
  /\ plast = NoPLast

PoolInitWith(R) == PoolInitOf(R, InitialPool.page_table_)

PoolInit == PoolInitWith(InitialPool.replacer_)

\* ------------------------------------------------------------------ actions
TreeInit ==
  /\ pages = << >>
  /\ latch = << >>
  /\ root_page_id_ = INVALID_PAGE_ID
  /\ root_latch_ = FreeLatch
  /\ th = [t \in Threads |-> IdleThread]
  /\ nops = 0
  /\ model = NoPre
  /\ insCount = [k \in KeyDomain |-> 0]
  /\ anyRemove = FALSE
  /\ last = NoLast
  /\ anomaly = FALSE

Init == TreeInit /\ PoolInit

\* The record of a thread that has just called op(key, val): its position, and for
\* the history what the tree held at the call.
CallRec(pgs, root, mdl, op, key, val, pc) ==
  [IdleThread EXCEPT
     !.pc = pc, !.op = op, !.key = key, !.val = val, !.cur = root,
     !.pre = Contents(pgs, root),
     !.must = IF key \in KeyDomain THEN mdl[key] ELSE NoVal,
     !.stored = StoredKeys(pgs, root),
     !.pages0 = pgs]

Call(t, op, key, val, pc) ==
  th' = [th EXCEPT ![t] = CallRec(pages, root_page_id_, model, op, key, val, pc)]

\* A caller starts Insert(k, v), k drawn from ks.
StartInsert(t, budget, ks) ==
  \E k \in ks, v \in Vals :
    /\ th[t].pc = "idle"
    /\ nops < budget
    /\ Call(t, "Insert", k, v, "rlock")
    /\ nops' = nops + 1
    /\ UNCHANGED bvars
    /\ insCount' = [insCount EXCEPT ![k] = IF @ < 2 THEN @ + 1 ELSE @]
    /\ UNCHANGED << pages, latch, root_page_id_, root_latch_, model, anyRemove, last,
                    anomaly >>

StartRemove(t, budget, ks) ==
  \E k \in ks :
    /\ th[t].pc = "idle"
    /\ nops < budget
    /\ Call(t, "Remove", k, 0, "rlock")
    /\ nops' = nops + 1
    /\ UNCHANGED bvars
    /\ anyRemove' = TRUE
    /\ UNCHANGED << pages, latch, root_page_id_, root_latch_, model, insCount, last,
                    anomaly >>

StartGetValue(t, budget, ks) ==
  \E k \in ks :
    /\ th[t].pc = "idle"
    /\ nops < budget
    /\ Call(t, "GetValue", k, 0, "rlock")
    /\ nops' = nops + 1
    /\ UNCHANGED bvars
    /\ UNCHANGED << pages, latch, root_page_id_, root_latch_, model, insCount,
                    anyRemove, last, anomaly >>

\* Begin() followed by the loop to End().
StartScan(t, budget) ==
  /\ th[t].pc = "idle"
  /\ nops < budget
  /\ Call(t, "Scan", 0, 0, "rlock")
  /\ nops' = nops + 1
  /\ UNCHANGED bvars
  /\ UNCHANGED << pages, latch, root_page_id_, root_latch_, model, insCount,
                  anyRemove, last, anomaly >>

\* Begin(key) followed by the loop to End(): GetLeafPage(key) is entered directly.
StartBeginKey(t, budget, ks) ==
  \E k \in ks :
    /\ th[t].pc = "idle"
    /\ nops < budget
    /\ Call(t, "Begin", k, 0, "fp_latch")
    /\ nops' = nops + 1
    /\ UNCHANGED bvars
    /\ UNCHANGED << pages, latch, root_page_id_, root_latch_, model, insCount,
                    anyRemove, last, anomaly >>

Step(t, S) == Apply(t, S) /\ UNCHANGED << nops, insCount, anyRemove >> /\ UNCHANGED bvars

RootRLock(t) ==
  /\ th[t].pc \in {"rlock", "ins_relock"}
  /\ CanR(root_latch_)
  /\ Step(t, AfterRootRLock(CurS(t), t))

InsWLock(t) ==
  /\ th[t].pc = "ins_wlock"
  /\ CanW(root_latch_)
  /\ Step(t, InsertIntoEmpty(CurS(t), t))

FirstPassLatch(t) ==
  /\ th[t].pc = "fp_latch"
  /\ IF ~ValidPage(pages, th[t].cur) THEN Step(t, Crash(CurS(t)))
     ELSE /\ IF IsLeafPage(pages[th[t].cur]) /\ th[t].op \in {"Insert", "Remove"}
               THEN CanW(latch[th[t].cur]) ELSE CanR(latch[th[t].cur])
          /\ \E ub \in UBOutcomes : Step(t, FirstPass(CurS(t), t, ub))

SecondPassWLock(t) ==
  /\ th[t].pc = "sp_wlock"
  /\ CanW(root_latch_)
  /\ Step(t, SecondPassStart(CurS(t), t))

SecondPassLatch(t) ==
  /\ th[t].pc = "sp_latch"
  /\ IF ~ValidPage(pages, th[t].cur) THEN Step(t, Crash(CurS(t)))
     ELSE /\ CanW(latch[th[t].cur])
          /\ \E ub \in UBOutcomes : Step(t, SecondPass(CurS(t), t, ub))

InsRootWLock(t) ==
  /\ th[t].pc = "ins_root_wlock"
  /\ CanW(root_latch_)
  /\ Step(t, InsertNewRoot(CurS(t), t))

HURootWLock(t) ==
  /\ th[t].pc = "hu_root_wlock"
  /\ CanW(root_latch_)
  /\ Step(t, RootUnderflow(CurS(t), t))

HULatchLeft(t) ==
  /\ th[t].pc = "hu_latch_left"
  /\ IF ~ValidPage(pages, th[t].left) THEN Step(t, Crash(CurS(t)))
     ELSE /\ CanW(latch[th[t].left])
          /\ \E ub \in UBOutcomes :
               LET S1 == [FetchPage(CurS(t), th[t].left)
                            EXCEPT !.latch[th[t].left] = WLock(@, t)]
               IN Step(t, IF th[t].right # INVALID_PAGE_ID
                            THEN [S1 EXCEPT !.me.pc = "hu_latch_right"]
                          ELSE HandleUnderflowLatched(S1, t, ub))

HULatchRight(t) ==
  /\ th[t].pc = "hu_latch_right"
  /\ IF ~ValidPage(pages, th[t].right) THEN Step(t, Crash(CurS(t)))
     ELSE /\ CanW(latch[th[t].right])
          /\ \E ub \in UBOutcomes :
               Step(t, HandleUnderflowLatched(
                         [FetchPage(CurS(t), th[t].right)
                            EXCEPT !.latch[th[t].right] = WLock(@, t)], t, ub))

ScanLoop(t) ==
  /\ th[t].pc = "scan_loop"
  /\ Step(t, ScanRound(CurS(t), t))

\* A single caller: every operation runs to its return before the next one starts.
Next ==
  \/ StartInsert(1, MaxOps, Keys)
  \/ StartRemove(1, MaxOps, Keys)
  \/ StartGetValue(1, MaxOps, Keys)
  \/ StartScan(1, MaxOps)
  \/ StartBeginKey(1, MaxOps, Keys)
  \/ RootRLock(1)
  \/ InsWLock(1)
  \/ FirstPassLatch(1)
  \/ SecondPassWLock(1)
  \/ SecondPassLatch(1)
  \/ InsRootWLock(1)
  \/ HURootWLock(1)
  \/ HULatchLeft(1)
  \/ HULatchRight(1)
  \/ ScanLoop(1)

Spec == Init /\ [][Next]_vars

\* The keys thread t inserts: the threads' key sets are pairwise disjoint.
KeysOf(t) == {k \in Keys : k % NumThreads = t % NumThreads}

\* Threads calling Insert, Remove and GetValue concurrently.
NextConc ==
  \E t \in Threads :
    \/ StartInsert(t, MaxConcOps, KeysOf(t))
    \/ StartRemove(t, MaxConcOps, Keys)
    \/ StartGetValue(t, MaxConcOps, Keys)
    \/ RootRLock(t)
    \/ InsWLock(t)
    \/ FirstPassLatch(t)
    \/ SecondPassWLock(t)
    \/ SecondPassLatch(t)
    \/ InsRootWLock(t)
    \/ HURootWLock(t)
    \/ HULatchLeft(t)
    \/ HULatchRight(t)

SpecConc == Init /\ [][NextConc]_vars

\* A single caller on a tree of three levels.  The tree it starts from is the one
\* the code builds from the empty tree by Insert(1, 1), Insert(2, 1), ... run one
\* after the other, each to its return (the root latch having been given up where
\* the code unlocks it before it takes it exclusively).
InsertStep(S, t) ==
  LET pc == S.me.pc
  IN IF pc \in {"rlock", "ins_relock"} THEN AfterRootRLock(S, t)
     ELSE IF pc = "ins_wlock" THEN InsertIntoEmpty(S, t)
     ELSE IF pc = "sp_wlock" THEN SecondPassStart(S, t)
     ELSE IF pc = "ins_root_wlock" THEN InsertNewRoot(S, t)
     ELSE IF pc \in {"fp_latch", "sp_latch"} THEN
       IF ~ValidPage(S.pages, S.me.cur) THEN Crash(S)
       ELSE IF pc = "fp_latch" THEN FirstPass(S, t, "release")
       ELSE SecondPass(S, t, "release")
     ELSE Crash(S)

RECURSIVE InsertRun(_, _)
InsertRun(S, t) ==
  IF S.me.pc \in {"idle", "crashed"} THEN S ELSE InsertRun(InsertStep(S, t), t)

RECURSIVE Preloaded(_)
Preloaded(n) ==
  IF n = 0
    THEN [pages |-> << >>, latch |-> << >>, root |-> INVALID_PAGE_ID, rl |-> FreeLatch,
          me |-> IdleThread, model |-> NoPre, last |-> NoLast, anomaly |-> FALSE]
  ELSE LET S == Preloaded(n - 1)
       IN InsertRun([S EXCEPT !.me = CallRec(S.pages, S.root, S.model,
                                             "Insert", n, 1, "rlock")], 1)

InitDeep ==
  \E n \in {DeepPreload - 1, DeepPreload} :
    LET S == Preloaded(n)
    IN /\ pages = S.pages
       /\ latch = S.latch
       /\ root_page_id_ = S.root
       /\ root_latch_ = S.rl
       /\ th = [t \in Threads |-> IdleThread]
       /\ nops = 0
       /\ model = S.model
       /\ insCount = [k \in KeyDomain |-> IF k <= n THEN 1 ELSE 0]
       /\ anyRemove = FALSE
       /\ last = S.last
       /\ anomaly = S.anomaly
       /\ PoolInit

DeepKeys == 1 .. DeepMaxKey

NextDeep ==
  \/ StartInsert(1, DeepOps, DeepKeys)
  \/ StartRemove(1, DeepOps, DeepKeys)
  \/ RootRLock(1)
  \/ FirstPassLatch(1)
  \/ SecondPassWLock(1)
  \/ SecondPassLatch(1)
  \/ InsRootWLock(1)
  \/ HURootWLock(1)
  \/ HULatchLeft(1)
  \/ HULatchRight(1)

SpecDeep == InitDeep /\ [][NextDeep]_vars

\* ------------------------------------------------------- buffer pool: actions
\* The manager's mutex serialises its handlers: a call is one step.  res is what
\* the handler yields on the pool the variables hold.
PoolCall(op, page_id, is_dirty, res) ==
  /\ blast.st # "crash"
  /\ bnops < MaxPoolOps
  /\ pages_' = res.b.pages_
  /\ free_list_' = res.b.free_list_
  /\ page_table_' = res.b.page_table_
  /\ replacer_' = res.b.replacer_
  /\ next_page_id_' = res.b.next_page_id_
  /\ disk' = res.b.disk
  /\ bnops' = bnops + 1
  /\ blast' = [op |-> op, page_id |-> page_id, is_dirty |-> is_dirty, st |-> res.st,
               frame |-> res.frame, ok |-> res.ok, pre |-> CurPool,
               unissued |-> blast.unissued
                            \/ (op = "FetchPage" /\ page_id >= next_page_id_)]
  /\ UNCHANGED << rlast, first_access, access_hist, hmodel, hlast, ppage, plast >>
  /\ UNCHANGED vars

BpmNewPage ==
  \E ub \in DanglingOutcomes, dt \in Ticks,
     g \in UndefinedOutcomes(replacer_.clock + 2) :
    /\ next_page_id_ < NumPages
    /\ PoolCall("NewPage", next_page_id_, FALSE, NewPgImp(CurPool, ub, dt, g))

BpmFetchPage ==
  \E p \in PageIds, dt \in Ticks, g \in UndefinedOutcomes(replacer_.clock + 2) :
    PoolCall("FetchPage", p, FALSE, FetchPgImp(CurPool, p, dt, g))

BpmUnpinPage ==
  \E p \in PageIds, d \in BOOLEAN :
    PoolCall("UnpinPage", p, d, UnpinPgImp(CurPool, p, d))

BpmFlushPage ==
  \E p \in PageIds : PoolCall("FlushPage", p, FALSE, FlushPgImp(CurPool, p))

BpmFlushAllPages ==
  PoolCall("FlushAllPages", INVALID_PAGE_ID, FALSE, FlushAllPgsImp(CurPool))

BpmDeletePage ==
  \E p \in PageIds, dt \in Ticks, g \in UndefinedOutcomes(replacer_.clock + 2) :
    PoolCall("DeletePage", p, FALSE, DeletePgImp(CurPool, p, dt, g))

\* A caller that holds the page of a resident page id writes its bytes.
BpmWriteData ==
  \E p \in PageIds, d \in 1 .. MaxData :
    LET fid == HashFind(page_table_, p)
    IN /\ fid # -1
       /\ PoolCall("Write", p, FALSE,
                   Result([CurPool EXCEPT !.pages_[fid].data_ = d], "ok", fid, TRUE))

NextPool ==
  \/ BpmNewPage
  \/ BpmFetchPage
  \/ BpmUnpinPage
  \/ BpmFlushPage
  \/ BpmFlushAllPages
  \/ BpmDeletePage
  \/ BpmWriteData

allvars == << vars, bvars >>

SpecPool == Init /\ [][NextPool]_allvars

\* ---------------------------------------------------------- replacer: actions
\* The replacer on its own, called by one client; its mutex makes a call one step.
\* The last k elements of s (all of s when it has fewer).
LastK(s, k) == IF Len(s) <= k THEN s ELSE SubSeq(s, Len(s) - k + 1, Len(s))

ReplacerCall(op, frame_id, flag, res) ==
  /\ rlast.st # "crash"
  /\ bnops < MaxLruOps
  /\ replacer_' = res.r
  /\ bnops' = bnops + 1
  /\ rlast' = [op |-> op, frame_id |-> frame_id, flag |-> flag, st |-> res.st,
               ret |-> res.ret,
               pre |-> replacer_, first |-> first_access, hist |-> access_hist]
  /\ first_access' =
       [f \in 0 .. PoolSize |->
          IF res.r.lru[f] = NoFrame THEN NoTs
          ELSE IF replacer_.lru[f] = NoFrame THEN res.r.clock
          ELSE first_access[f]]
  /\ access_hist' =
       [f \in 0 .. PoolSize |->
          IF res.r.lru[f] = NoFrame THEN << >>
          ELSE IF op = "RecordAccess" /\ f = frame_id /\ res.st = "ok"
            THEN LastK(Append(access_hist[f], res.r.clock), replacer_.k_)
          ELSE access_hist[f]]
  /\ UNCHANGED << pages_, free_list_, page_table_, next_page_id_, disk, blast >>
  /\ UNCHANGED << hmodel, hlast, ppage, plast >>
  /\ UNCHANGED vars

FrameArgs == 0 .. PoolSize + 1

LruRecordAccess ==
  \E f \in FrameArgs, dt \in Ticks, g \in UndefinedOutcomes(replacer_.clock + 2) :
    ReplacerCall("RecordAccess", f, FALSE, LRUK_RecordAccess(replacer_, f, dt, g))

LruSetEvictable ==
  \E f \in FrameArgs, b \in BOOLEAN :
    ReplacerCall("SetEvictable", f, b, LRUK_SetEvictable(replacer_, f, b))

LruEvict == ReplacerCall("Evict", -1, FALSE, LRUK_Evict(replacer_))

LruRemove ==
  \E f \in FrameArgs, g \in UndefinedOutcomes(replacer_.clock + 2) :
    ReplacerCall("Remove", f, FALSE, LRUK_Remove(replacer_, f, g))

NextLRU ==
  \/ LruRecordAccess
  \/ LruSetEvictable
  \/ LruEvict
  \/ LruRemove

InitLRU ==
  \E k \in 1 .. MaxReplacerK : TreeInit /\ PoolInitWith(NewReplacer(PoolSize, k))

SpecLRU == InitLRU /\ [][NextLRU]_allvars

\* -------------------------------------------------------- hash table: actions
\* The hash table on its own, page_table_ being the table; its mutex makes a call
\* one step.  ret is 1 for true, 0 for false.
HashCall(op, key, value, ht, ret) ==
  /\ bnops < MaxHashOps
  /\ page_table_' = ht
  /\ bnops' = bnops + 1
  /\ hlast' = [op |-> op, key |-> key, value |-> value, ret |-> ret,
               present |-> hmodel[key] # -1]
  /\ hmodel' = [hmodel EXCEPT ![key] = value]
  /\ UNCHANGED << pages_, free_list_, replacer_, next_page_id_, disk, blast, rlast,
                  first_access, access_hist, ppage, plast >>
  /\ UNCHANGED vars

HtInsert ==
  \E k \in HashKeys, v \in HashVals :
    HashCall("Insert", k, v, HashInsert(page_table_, k, v), 1)

HtRemove ==
  \E k \in HashKeys :
    HashCall("Remove", k, -1, HashRemove(page_table_, k), HashRemoveRet(page_table_, k))

NextHash ==
  \/ HtInsert
  \/ HtRemove

InitHash ==
  \E bs \in 1 .. bucket_size_ :
    TreeInit /\ PoolInitOf(InitialPool.replacer_, NewHashTable(bs))

SpecHash == InitHash /\ [][NextHash]_allvars

\* ------------------------------------------------------- tree page: actions
\* One tree page on its own, as a caller that holds its latch sees it.
PageKeys == 1 .. MaxPageKey

\* A page of the given kind that holds the keys of ks in ascending order, from slot
\* first on, each with value v.
PageWith(kind, ks, first, v) ==
  LET sorted == Ascending(ks)
      p0 == IF kind = "LEAF" THEN LeafInit(1, INVALID_PAGE_ID, leaf_max_size_)
            ELSE InternalInit(1, INVALID_PAGE_ID, internal_max_size_)
  IN [p0 EXCEPT
        !.size = first + Len(sorted),
        !.arr = [j \in 1 .. ArrCap |->
                   IF j > first /\ j - first <= Len(sorted)
                     THEN [k |-> sorted[j - first], v |-> v]
                   ELSE IF j <= first THEN [k |-> 0, v |-> v]
                   ELSE ZeroEntry]]

PageCall(op, key, value, p) ==
  /\ ppage.size < ArrCap - 1
  /\ key \notin {KeyAt(ppage, i) : i \in 0 .. ppage.size - 1}
  /\ ppage' = p
  /\ plast' = [op |-> op, key |-> key, value |-> value, pre |-> ppage]
  /\ UNCHANGED << pages_, free_list_, page_table_, replacer_, next_page_id_, disk,
                  bnops, blast, rlast, first_access, access_hist, hmodel, hlast >>
  /\ UNCHANGED vars

PageLeafInsert ==
  \E key \in PageKeys, value \in Vals :
    /\ IsLeafPage(ppage)
    /\ PageCall("LeafInsert", key, value, LeafInsert(ppage, key, value))

PageInternalInsert ==
  \E key \in PageKeys, value \in Vals :
    /\ ~IsLeafPage(ppage)
    /\ PageCall("InternalInsert", key, value, InternalInsert(ppage, key, value))

NextPage ==
  \/ PageLeafInsert
  \/ PageInternalInsert

InitPage ==
  \E ks \in SUBSET PageKeys, kind \in {"LEAF", "INTERNAL"}, v \in Vals :
    /\ Cardinality(ks) <= Min2(MaxPageSize, ArrCap - 2)
    /\ TreeInit
    /\ pages_ = InitialPool.pages_
    /\ free_list_ = InitialPool.free_list_
    /\ page_table_ = InitialPool.page_table_
    /\ replacer_ = InitialPool.replacer_
    /\ next_page_id_ = InitialPool.next_page_id_
    /\ disk = InitialPool.disk
    /\ bnops = 0
    /\ blast = NoBLast
    /\ rlast = NoRLast
    /\ first_access = [f \in 0 .. PoolSize |-> NoTs]
    /\ access_hist = [f \in 0 .. PoolSize |-> << >>]
    /\ hmodel = [k \in HashKeys |-> -1]
    /\ hlast = NoHLast
    /\ ppage = PageWith(kind, ks, IF kind = "LEAF" THEN 0 ELSE 1, v)
    /\ plast = NoPLast

SpecPage == InitPage /\ [][NextPage]_allvars

\* ------------------------------------------------------------------- claims
\* No operation is in progress.
AllIdle == \A t \in Threads : th[t].pc = "idle"
\* Only Insert calls with pairwise distinct keys (and lookups) have been made.
DistinctInsertsOnly == ~anyRemove /\ \A k \in KeyDomain : insCount[k] <= 1

\* C1: round trip.  In a single-threaded run of Insert calls with pairwise distinct
\* keys on an initially empty tree, every Insert returns true and a later GetValue of
\* an inserted key returns exactly the inserted value.
C1_RoundTrip ==
  (AllIdle /\ DistinctInsertsOnly) =>
    /\ last.op = "Insert" => last.ret = TRUE
    /\ (last.op = "GetValue" /\ insCount[last.key] = 1) =>
         (last.ret = TRUE /\ last.found # NoVal /\ last.found = model[last.key])

\* C2: Insert(k, v) on a tree that stores key k returns false and leaves the key to
\* value contents of the tree as they were.
C2_DuplicateInsert ==
  (AllIdle /\ last.op = "Insert" /\ last.key \in last.stored) =>
    (last.ret = FALSE /\ Contents(pages, root_page_id_) = last.pre)

\* C3: after a Remove(k) has returned, a lookup of k finds nothing, every other key
\* that could be retrieved before is retrieved with the same value, and no key that
\* the tree did not store before can be retrieved.
C3_Remove ==
  (AllIdle /\ last.op = "Remove") =>
    LET now == Contents(pages, root_page_id_)
    IN /\ now[last.key] = NoVal
       /\ \A k \in KeyDomain \ {last.key} : last.pre[k] # NoVal => now[k] = last.pre[k]
       /\ \A k \in KeyDomain : now[k] # NoVal => k \in last.stored

\* C4: on a tree that stores keys, a scan from Begin() to End() runs to its end and
\* yields exactly the keys of the tree in ascending order; a scan from Begin(k) yields
\* those that are >= k.
C4_Scan ==
  /\ \A t \in Threads :
       (th[t].op \in {"Scan", "Begin"} /\ th[t].stored # {}) => th[t].pc # "crashed"
  /\ (AllIdle /\ last.op = "Scan") =>
       last.out = Ascending({k \in KeyDomain : last.pre[k] # NoVal})
  /\ (AllIdle /\ last.op = "Begin") =>
       last.out = Ascending({k \in KeyDomain : last.pre[k] # NoVal /\ k >= last.key})

\* The leaves met by following next_page_id from the leaf pid.
RECURSIVE Chain(_, _, _)
Chain(pgs, pid, fuel) ==
  IF fuel = 0 \/ ~ValidPage(pgs, pid) \/ ~IsLeafPage(pgs[pid]) THEN << >>
  ELSE << pid >> \o Chain(pgs, pgs[pid].next, fuel - 1)

LeafAscending(p) == \A i \in 0 .. p.size - 2 : KeyAt(p, i) < KeyAt(p, i + 1)

\* C5: when no operation is in progress the keys of every leaf ascend strictly, the
\* chain from the leftmost leaf visits every leaf exactly once, every key of a leaf is
\* smaller than every key of its successor, and no key is stored twice.
C5_Ordered ==
  (AllIdle /\ ~IsEmpty(root_page_id_)) =>
    LET leaves == LeavesOf(pages, root_page_id_)
        chain == Chain(pages, Leftmost(pages, root_page_id_, Len(pages)), Len(pages) + 1)
    IN /\ \A p \in leaves : LeafAscending(pages[p])
       /\ Range(chain) = leaves /\ Len(chain) = Cardinality(leaves)
       /\ \A i \in 1 .. Len(chain) - 1 :
            \A a \in KeysIn(pages[chain[i]]), b \in KeysIn(pages[chain[i + 1]]) : a < b
       /\ \A p, q \in leaves : p # q => KeysIn(pages[p]) \cap KeysIn(pages[q]) = {}

\* The depths at which the leaves below the page pid lie, pid being at depth d.
RECURSIVE LeafDepths(_, _, _, _)
LeafDepths(pgs, pid, d, fuel) ==
  IF fuel = 0 \/ ~ValidPage(pgs, pid) THEN {}
  ELSE IF IsLeafPage(pgs[pid]) THEN {d}
  ELSE UNION {LeafDepths(pgs, ValueAt(pgs[pid], i), d + 1, fuel - 1) :
                i \in 0 .. Min2(pgs[pid].size, ArrCap) - 1}

\* C6: after every completed Insert or Remove all leaves lie at the same depth.
C6_SameDepth ==
  AllIdle => Cardinality(LeafDepths(pages, root_page_id_, 0, Len(pages))) <= 1

SizeOk(p) ==
  IF IsLeafPage(p)
    THEN p.size <= p.max_size - 1 /\ p.size >= (IF IsRootPage(p) THEN 1 ELSE GetMinSize(p))
  ELSE p.size <= p.max_size /\ p.size >= (IF IsRootPage(p) THEN 2 ELSE GetMinSize(p))

\* A tree of three levels after a completed Remove that merged two pages (the right
\* one has been deleted), with more than one leaf left.
C6_Witness ==
  /\ AllIdle /\ last.op = "Remove"
  /\ LeafDepths(pages, root_page_id_, 0, Len(pages)) = {2}
  /\ Cardinality(LeavesOf(pages, root_page_id_)) >= 2
  /\ \E p \in DOMAIN pages : pages[p].type = "INVALID"

\* C7: after every completed Insert or Remove every page of the tree is within its
\* size bounds: a leaf ceil(max/2) .. max - 1 (the root leaf 1 .. max - 1), an
\* internal page ceil(max/2) .. max children (the root 2 .. max).
C7_SizeBounds ==
  AllIdle => \A p \in Subtree(pages, root_page_id_, Len(pages)) : SizeOk(pages[p])

\* C8: when the threads have inserted pairwise disjoint sets of keys and all of them
\* have returned, every Insert has returned true and every inserted key is found
\* with its value.
C8_DisjointInserts ==
  (AllIdle /\ DistinctInsertsOnly) =>
    \A k \in KeyDomain : insCount[k] = 1 =>
      (model[k] # NoVal /\ GetValueOf(pages, root_page_id_, k) = model[k])

\* C9: with Insert and GetValue threads only, a GetValue(k) that starts after an
\* Insert(k, v) has returned true finds v.
C9_Linearizable ==
  (~anyRemove /\ last.op = "GetValue" /\ last.must # NoVal) =>
    (last.ret = TRUE /\ last.found = last.must)

\* The thread is inside an operation (a thread that has died is not).
Busy(t) == th[t].pc \notin {"idle", "crashed"}
\* The latch the thread's next step acquires can be acquired.
CanStep(t) ==
  LET me == th[t]
  IN CASE me.pc \in {"rlock", "ins_relock"} -> CanR(root_latch_)
       [] me.pc \in {"ins_wlock", "sp_wlock", "ins_root_wlock", "hu_root_wlock"} ->
            CanW(root_latch_)
       [] me.pc = "fp_latch" ->
            \/ ~ValidPage(pages, me.cur)
            \/ IF IsLeafPage(pages[me.cur]) /\ me.op \in {"Insert", "Remove"}
                 THEN CanW(latch[me.cur]) ELSE CanR(latch[me.cur])
       [] me.pc = "sp_latch" -> ~ValidPage(pages, me.cur) \/ CanW(latch[me.cur])
       [] me.pc = "hu_latch_left" -> ~ValidPage(pages, me.left) \/ CanW(latch[me.left])
       [] me.pc = "hu_latch_right" -> ~ValidPage(pages, me.right) \/ CanW(latch[me.right])
       [] OTHER -> TRUE

\* C10: the latching is deadlock free.  Whenever operations are in progress, one of
\* the threads inside an operation can take its next step.
C10_NoDeadlock ==
  (\E t \in Threads : Busy(t)) => (\E t \in Threads : Busy(t) /\ CanStep(t))

\* ------------------------------------------------------ claims: buffer pool
\* The frame holding page id p according to the page table of pool B, -1 if none.
FrameOf(B, p) == HashFind(B.page_table_, p)

\* Frame f has a record in the replacer of pool B that is marked evictable.
Evictable(B, f) == B.replacer_.lru[f] # NoFrame /\ B.replacer_.lru[f].evictable

\* Pool B has a frame to give out: a free one or an evictable one.
FrameAvailable(B) ==
  B.free_list_ # << >> \/ \E f \in DOMAIN B.pages_ : Evictable(B, f)

\* The last call was op and the process survived it.
Called(op) == blast.op = op /\ blast.st # "crash"

\* C11: NewPage returns null exactly when the free list is empty and no frame is
\* evictable, and then changes nothing; otherwise it completes normally and
\* returns a frame holding a page id never issued before, with pin_count 1, clean,
\* mapped from that page id in the page table and non-evictable in the replacer.
C11_NewPage ==
  Called("NewPage") =>
    IF ~FrameAvailable(blast.pre)
      THEN blast.st = "ok" /\ blast.frame = NullFrame /\ CurPool = blast.pre
    ELSE /\ blast.st = "ok"
         /\ blast.frame \in Frames
         /\ pages_[blast.frame].page_id_ = blast.pre.next_page_id_
         /\ next_page_id_ > blast.pre.next_page_id_
         /\ pages_[blast.frame].pin_count_ = 1
         /\ ~pages_[blast.frame].is_dirty_
         /\ FrameOf(CurPool, blast.pre.next_page_id_) = blast.frame
         /\ replacer_.lru[blast.frame] # NoFrame
         /\ ~replacer_.lru[blast.frame].evictable

\* C12: FetchPage of a resident page returns its frame with pin_count one higher
\* than before, an access recorded and the frame non-evictable.
C12_FetchResident ==
  (Called("FetchPage") /\ FrameOf(blast.pre, blast.page_id) # -1) =>
    LET f == FrameOf(blast.pre, blast.page_id)
    IN /\ blast.st = "ok"
       /\ blast.frame = f
       /\ pages_[f].pin_count_ = blast.pre.pages_[f].pin_count_ + 1
       /\ replacer_.lru[f] # NoFrame
       /\ ~replacer_.lru[f].evictable

\* C13: FetchPage of a non-resident page p returns, when a frame is free or
\* evictable, a frame with page id p, pin_count 1 and the bytes the disk holds for
\* p, mapped from p in the page table; it returns null only when no frame is
\* available.
C13_FetchNonResident ==
  (Called("FetchPage") /\ FrameOf(blast.pre, blast.page_id) = -1) =>
    IF FrameAvailable(blast.pre)
      THEN /\ blast.st = "ok"
           /\ blast.frame \in Frames
           /\ pages_[blast.frame].page_id_ = blast.page_id
           /\ pages_[blast.frame].pin_count_ = 1
           /\ pages_[blast.frame].data_ = blast.pre.disk[blast.page_id]
           /\ FrameOf(CurPool, blast.page_id) = blast.frame
    ELSE blast.st = "ok" /\ blast.frame = NullFrame

\* C14: UnpinPage(p, is_dirty) of a pinned resident page leaves the frame dirty
\* exactly if it was dirty before or is_dirty is true: the flag is set by
\* is_dirty = true and never cleared by is_dirty = false.
C14_DirtyMonotonic ==
  (Called("UnpinPage") /\ FrameOf(blast.pre, blast.page_id) # -1
     /\ blast.pre.pages_[FrameOf(blast.pre, blast.page_id)].pin_count_ > 0) =>
    LET f == FrameOf(blast.pre, blast.page_id)
    IN pages_[f].is_dirty_ = (blast.pre.pages_[f].is_dirty_ \/ blast.is_dirty)

\* C15: UnpinPage returns false and changes nothing when the page is not resident
\* or its pin_count is 0; otherwise it returns true, pin_count is one lower, and
\* the frame is evictable in the replacer exactly if pin_count has reached 0.
C15_Unpin ==
  Called("UnpinPage") =>
    LET f == FrameOf(blast.pre, blast.page_id)
    IN IF f = -1 \/ blast.pre.pages_[f].pin_count_ <= 0
         THEN blast.st = "ok" /\ ~blast.ok /\ CurPool = blast.pre
       ELSE /\ blast.st = "ok"
            /\ blast.ok
            /\ pages_[f].pin_count_ = blast.pre.pages_[f].pin_count_ - 1
            /\ Evictable(CurPool, f) <=> (pages_[f].pin_count_ = 0)

\* C16: DeletePage returns true without change when the page is not resident and
\* false without change when it is pinned; otherwise it completes normally, the
\* page is no longer mapped, the frame has no record in the replacer, is in the
\* free list with pin_count 0, and the disk is as before.
C16_Delete ==
  Called("DeletePage") =>
    LET f == FrameOf(blast.pre, blast.page_id)
    IN IF f = -1 THEN blast.st = "ok" /\ blast.ok /\ CurPool = blast.pre
       ELSE IF blast.pre.pages_[f].pin_count_ > 0
         THEN blast.st = "ok" /\ ~blast.ok /\ CurPool = blast.pre
       ELSE /\ blast.st = "ok"
            /\ blast.ok
            /\ FrameOf(CurPool, blast.page_id) = -1
            /\ replacer_.lru[f] = NoFrame
            /\ f \in Range(free_list_)
            /\ pages_[f].pin_count_ = 0
            /\ disk = blast.pre.disk

\* C17: after calls on page ids the pool has issued, the page table maps exactly
\* the resident frames: a frame outside the free list is the value of one entry,
\* the one of its own page id; a frame in the free list is the value of no entry;
\* no two frames hold the same page id.
C17_Bijection ==
  (blast.st # "crash" /\ ~blast.unissued) =>
    /\ \A f \in Frames :
         LET es == {e \in TableEntries(page_table_) : e[2] = f}
         IN IF f \in Range(free_list_) THEN es = {}
            ELSE es = {<< pages_[f].page_id_, f >>}
    /\ \A f1, f2 \in Frames :
         (f1 # f2 /\ pages_[f1].page_id_ # INVALID_PAGE_ID) =>
           pages_[f1].page_id_ # pages_[f2].page_id_

ColdEvictable(R) ==
  {f \in DOMAIN R.lru :
     R.lru[f] # NoFrame /\ R.lru[f].evictable /\ R.lru[f].n_access < R.k_}

\* C20: when some evictable frame has fewer than k recorded accesses, Evict returns
\* such a frame, and none of the evictable frames with fewer than k accesses has an
\* earlier first access than the one returned.
C20_ColdEvict ==
  (rlast.op = "Evict" /\ rlast.st = "ok" /\ ColdEvictable(rlast.pre) # {}) =>
    /\ rlast.ret \in ColdEvictable(rlast.pre)
    /\ \A f \in ColdEvictable(rlast.pre) : rlast.first[rlast.ret] <= rlast.first[f]


\* The frames of replacer R whose evictable flag is set.
EvictableFrames(R) == {f \in DOMAIN R.lru : R.lru[f] # NoFrame /\ R.lru[f].evictable}

\* The last Evict found evictable frames, each with at least k_ accesses on record.
WarmOnly ==
  /\ rlast.op = "Evict" /\ rlast.st = "ok"
  /\ EvictableFrames(rlast.pre) # {}
  /\ \A f \in EvictableFrames(rlast.pre) : Len(rlast.hist[f]) >= rlast.pre.k_

\* C21: when every evictable frame has at least k accesses, Evict returns the
\* evictable frame whose k-th most recent access is earliest.
C21_WarmEvict ==
  WarmOnly =>
    /\ rlast.ret \in EvictableFrames(rlast.pre)
    /\ \A f \in EvictableFrames(rlast.pre) : rlast.hist[rlast.ret][1] <= rlast.hist[f][1]

\* The change of Size() that the last call owes to a flip of an evictable flag.
FlagFlip ==
  IF rlast.op = "SetEvictable" /\ rlast.frame_id \in DOMAIN rlast.pre.lru
    THEN LET f == rlast.pre.lru[rlast.frame_id]
         IN IF f = NoFrame \/ f.evictable = rlast.flag THEN 0
            ELSE IF rlast.flag THEN 1 ELSE -1
  ELSE 0

\* C22: Size() is the number of records whose evictable flag is set; SetEvictable
\* changes it by one exactly when the flag flips; RecordAccess leaves it alone.
C22_Size ==
  rlast.st # "crash" =>
    /\ LRUK_Size(replacer_) = Cardinality(EvictableFrames(replacer_))
    /\ rlast.op = "RecordAccess" => LRUK_Size(replacer_) = LRUK_Size(rlast.pre)
    /\ rlast.op = "SetEvictable" =>
          LRUK_Size(replacer_) = LRUK_Size(rlast.pre) + FlagFlip

\* SetEvictable(f, false) has cleared a set flag while another frame stays evictable.
C22_Witness ==
  /\ rlast.op = "SetEvictable" /\ rlast.st = "ok" /\ FlagFlip = -1
  /\ LRUK_Size(replacer_) = 1
  /\ Cardinality({f \in DOMAIN replacer_.lru : replacer_.lru[f] # NoFrame}) = 2

\* The ids of the frames the tree of replacer R holds.
TreeIds(R) == {R.tree[p].id : p \in 1 .. Len(R.tree)}

\* C23: Evict returns only a frame whose evictable flag is set, and returns one
\* exactly when Size() > 0; on success the frame's record is gone, the other records
\* are as before, Size() is one less and the next RecordAccess of the frame starts a
\* history of one access; on failure the replacer is unchanged.
C23_Evict ==
  (rlast.op = "Evict" /\ rlast.st = "ok") =>
    /\ (rlast.ret # -1) <=> (LRUK_Size(rlast.pre) > 0)
    /\ rlast.ret = -1 => replacer_ = rlast.pre
    /\ rlast.ret # -1 =>
          /\ rlast.ret \in EvictableFrames(rlast.pre)
          /\ replacer_.lru = [rlast.pre.lru EXCEPT ![rlast.ret] = NoFrame]
          /\ TreeIds(replacer_) = TreeIds(rlast.pre) \ {rlast.ret}
          /\ Len(replacer_.tree) = Len(rlast.pre.tree) - 1
          /\ LRUK_Size(replacer_) = LRUK_Size(rlast.pre) - 1
          /\ \A dt \in Ticks, g \in GarbageTs(replacer_.clock + 2) :
                LET o == LRUK_RecordAccess(replacer_, rlast.ret, dt, g)
                IN o.st = "ok" =>
                     /\ o.r.lru[rlast.ret].n_access = 1
                     /\ o.r.lru[rlast.ret].access_rec = << >>
                     /\ ~o.r.lru[rlast.ret].evictable

\* Evict has returned a frame while a frame that is not evictable keeps its record.
C23_Witness ==
  /\ rlast.op = "Evict" /\ rlast.st = "ok" /\ rlast.ret # -1
  /\ \E f \in DOMAIN replacer_.lru :
        replacer_.lru[f] # NoFrame /\ ~replacer_.lru[f].evictable

\* C24: RecordAccess and SetEvictable with a frame id >= replacer_size_ (the pool
\* size) fail, create no record and change nothing.
C24_RangeCheck ==
  (rlast.op \in {"RecordAccess", "SetEvictable"}
     /\ rlast.frame_id >= rlast.pre.replacer_size_) =>
    /\ rlast.st # "ok"
    /\ replacer_.lru = rlast.pre.lru
    /\ replacer_.tree = rlast.pre.tree
    /\ LRUK_Size(replacer_) = LRUK_Size(rlast.pre)

\* C25: SetEvictable on a frame id below replacer_size_ that has no record returns
\* normally and changes neither the records nor Size().
C25_SetEvictableNoRecord ==
  (rlast.op = "SetEvictable"
     /\ rlast.frame_id < rlast.pre.replacer_size_
     /\ rlast.pre.lru[rlast.frame_id] = NoFrame) =>
    /\ rlast.st = "ok"
    /\ replacer_ = rlast.pre

\* C26: Remove of a frame without a record changes nothing and returns; of a frame
\* whose record is not evictable it fails and leaves records and Size() alone; of a
\* frame whose record is evictable it removes the record and Size() is one less.
C26_Remove ==
  (rlast.op = "Remove" /\ rlast.frame_id \in DOMAIN rlast.pre.lru) =>
    LET f == rlast.pre.lru[rlast.frame_id]
    IN IF f = NoFrame THEN rlast.st = "ok" /\ replacer_ = rlast.pre
       ELSE IF ~f.evictable
         THEN /\ rlast.st # "ok"
              /\ replacer_.lru = rlast.pre.lru
              /\ replacer_.tree = rlast.pre.tree
              /\ LRUK_Size(replacer_) = LRUK_Size(rlast.pre)
       ELSE /\ rlast.st = "ok"
            /\ replacer_.lru = [rlast.pre.lru EXCEPT ![rlast.frame_id] = NoFrame]
            /\ TreeIds(replacer_) = TreeIds(rlast.pre) \ {rlast.frame_id}
            /\ Len(replacer_.tree) = Len(rlast.pre.tree) - 1
            /\ LRUK_Size(replacer_) = LRUK_Size(rlast.pre) - 1

\* ------------------------------------------------------- claims: hash table
\* The buckets the directory of ht references.
DirRefs(ht) == {ht.dir_[s] : s \in 1 .. Len(ht.dir_)}

\* The entries ht stores: bucket, position in the bucket's list.
StoredEntries(ht) ==
  UNION {{<< r, i >> : i \in 1 .. Len(ht.heap[r].list_)} : r \in DirRefs(ht)}

\* C27: Find(k) yields the value of the last Insert(k, .) that no Remove(k)
\* followed and nothing otherwise; the table stores one entry per key present; the
\* last Remove(k) returned true exactly when k was present.
C27_Map ==
  /\ \A k \in HashKeys : HashFind(page_table_, k) = hmodel[k]
  /\ Cardinality(StoredEntries(page_table_))
       = Cardinality({k \in HashKeys : hmodel[k] # -1})
  /\ hlast.op = "Remove" => (hlast.ret = 1 <=> hlast.present)

\* An Insert has overwritten the value of a key present, in a table whose directory
\* has doubled twice and that holds three keys.
C27_Witness ==
  /\ hlast.op = "Insert" /\ hlast.present
  /\ page_table_.global_depth_ >= 2
  /\ Cardinality({k \in HashKeys : hmodel[k] # -1}) = 3

\* The slots (0-based) of the directory of ht that reference bucket r.
SlotsOf(ht, r) == {s \in 0 .. Len(ht.dir_) - 1 : ht.dir_[s + 1] = r}

\* C28: the directory has 2^global_depth slots; a bucket of local depth d has
\* d <= global_depth, is referenced by exactly the 2^(global_depth - d) slots that
\* agree on their low d bits, holds only keys whose hash has these low d bits, and
\* holds at most bucket_size entries.
C28_Directory ==
  LET ht == page_table_
  IN /\ Len(ht.dir_) = Pow2(ht.global_depth_)
     /\ \A r \in DirRefs(ht) :
          LET d == ht.heap[r].depth_
              slots == SlotsOf(ht, r)
          IN /\ d <= ht.global_depth_
             /\ Cardinality(slots) = Pow2(ht.global_depth_ - d)
             /\ \A s1, s2 \in slots : s1 % Pow2(d) = s2 % Pow2(d)
             /\ \A i \in 1 .. Len(ht.heap[r].list_), s1 \in slots :
                  Hash(ht.heap[r].list_[i][1]) % Pow2(d) = s1 % Pow2(d)
             /\ Len(ht.heap[r].list_) <= ht.bucket_size_

\* The directory has doubled twice and a bucket of local depth 1 that holds a key
\* is referenced by two slots.
C28_Witness ==
  /\ page_table_.global_depth_ = 2
  /\ \E r \in DirRefs(page_table_) :
        /\ page_table_.heap[r].depth_ = 1
        /\ Len(page_table_.heap[r].list_) > 0
        /\ Cardinality(SlotsOf(page_table_, r)) = 2

\* ------------------------------------------------------- claims: tree page
\* The entries of page p in slots first .. size - 1, in slot order.
EntriesFrom(p, first) == [i \in 1 .. p.size - first |-> p.arr[first + i]]

\* The keys of the sequence of entries es ascend strictly.
KeysAscend(es) == \A i \in 1 .. Len(es) - 1 : es[i].k < es[i + 1].k

\* The last call was Insert(key, value) on a page whose keys ascend from slot first
\* on; now the page holds one entry more, its entries from slot first on are the old
\* ones and the new one with ascending keys, and the slots below first are as before.
InsertedInOrder(first) ==
  KeysAscend(EntriesFrom(plast.pre, first)) =>
    /\ ppage.size = plast.pre.size + 1
    /\ KeysAscend(EntriesFrom(ppage, first))
    /\ Range(EntriesFrom(ppage, first))
         = Range(EntriesFrom(plast.pre, first)) \cup {[k |-> plast.key, v |-> plast.value]}
    /\ \A j \in 1 .. first : ppage.arr[j] = plast.pre.arr[j]

\* C29: Insert of a key not on a page with ascending keys yields the page with the
\* old entries and the new one in ascending order and size + 1, on a leaf page over
\* all slots and on an internal page over slots 1 .. size - 1 with slot 0 untouched.
C29_OrderedInsert ==
  /\ plast.op = "LeafInsert" => InsertedInOrder(0)
  /\ plast.op = "InternalInsert" => InsertedInOrder(1)

\* ------------------------------------------------------- claims: leaf split
\* The Insert that returned last has split a leaf.
LeafWasSplit == AllIdle /\ last.op = "Insert" /\ last.lsplit # NoLeafSplit

\* Some internal page holds key as the separator of child.
HasSeparator(pgs, key, child) ==
  \E p \in DOMAIN pgs :
    /\ pgs[p].type = "INTERNAL"
    /\ \E i \in 0 .. pgs[p].size - 1 : KeyAt(pgs[p], i) = key /\ ValueAt(pgs[p], i) = child

\* C30: after an Insert that brought a leaf to leaf_max_size_, the leaf holds the
\* first ceil(size / 2) entries, the new leaf the rest in the same order, the new
\* leaf has the old next_page_id and the leaf points to the new leaf, and the first
\* key of the new leaf is in an internal page as the separator of the new leaf.
C30_LeafSplit ==
  LeafWasSplit =>
    LET full == last.lsplit.full
        left == pages[last.lsplit.old]
        right == pages[last.lsplit.new]
    IN /\ left.size = (full.size + 1) \div 2
       /\ EntriesFrom(left, 0) \o EntriesFrom(right, 0) = EntriesFrom(full, 0)
       /\ right.next = full.next
       /\ left.next = last.lsplit.new
       /\ HasSeparator(pages, KeyAt(right, 0), last.lsplit.new)

\* --------------------------------------------------- claims: internal split
\* The Insert that returned last has split an internal node.
InternalWasSplit ==
  AllIdle /\ nops > 0 /\ last.op = "Insert" /\ last.isplit # NoInternalSplit

\* The child pointers an internal page holds.
ChildrenOf(p) == {ValueAt(p, i) : i \in 0 .. p.size - 1}

\* C31: after an Insert that brought an internal node above internal_max_size_, the
\* node and its new sibling hold exactly the children the node held before the split
\* (the sizes add up), every child of the sibling has the sibling as its parent, and
\* the key that went up is the first key of the moved entries.
C31_InternalSplit ==
  InternalWasSplit =>
    LET full == last.isplit.full
        node == pages[last.isplit.node]
        sib == pages[last.isplit.sib]
        offset == (full.size + 1) \div 2
    IN /\ node.size + sib.size = full.size
       /\ ChildrenOf(node) \cup ChildrenOf(sib) = ChildrenOf(full)
       /\ \A i \in offset .. full.size - 1 :
            pages[ValueAt(full, i)].parent = last.isplit.sib
       /\ last.isplit.up = KeyAt(full, offset)

\* --------------------------------------------- claims: pessimistic write pass
\* The pages thread t holds the W latch of.
WHeld(t) == {p \in DOMAIN pages : latch[p].w = t}

\* The page whose W latch the next step of thread t acquires before it goes on.
Acquiring(t) ==
  IF th[t].pc \in {"fp_latch", "sp_latch"} THEN {th[t].cur}
  ELSE IF th[t].pc = "hu_latch_left" THEN {th[t].left}
  ELSE IF th[t].pc = "hu_latch_right" THEN {th[t].right}
  ELSE {}

\* Thread t is inside the second pass of GetLeafPage, about to latch page cur: its
\* page set is what it holds, the exclusive hold of the root latch is in it exactly
\* as the nullptr sentinel at the front, the pages of the set are the path from the
\* deepest safe page (from the root if no page was safe) down to the parent of cur.
SecondPassHeld(t) ==
  LET ps == th[t].ps
      op == th[t].op
      key == th[t].key
  IN th[t].pc = "sp_latch" =>
       /\ Len(ps) > 0
       /\ WHeld(t) = Range(ps) \ {NullPage}
       /\ (NullPage \in Range(ps)) <=> (root_latch_.w = t)
       /\ \A i \in 2 .. Len(ps) : ps[i] # NullPage /\ ~IsPageSafe(pages[ps[i]], op)
       /\ ps[1] # NullPage => IsPageSafe(pages[ps[1]], op)
       /\ \A i \in 1 .. Len(ps) - 1 :
            ps[i + 1] = IF ps[i] = NullPage THEN root_page_id_
                        ELSE ChildFor(pages[ps[i]], key)
       /\ th[t].cur = IF ps[Len(ps)] = NullPage THEN root_page_id_
                      ELSE ChildFor(pages[ps[Len(ps)]], key)

\* The page thread t has created and not yet linked into the tree.
OwnNew(t) == IF th[t].pc = "ins_root_wlock" THEN {th[t].new_node} ELSE {}

\* A step changes only pages that some thread holds the W latch of, latches first,
\* or has created itself (DeletePage, which zeroes the frame, is not counted).
ModifiedUnderLatch ==
  \A p \in DOMAIN pages :
    pages'[p] # pages[p] /\ pages'[p] # ZeroPage =>
      \E t \in Threads : p \in WHeld(t) \cup Acquiring(t) \cup OwnNew(t)

\* C32: in the second pass a safe page releases every W latch and the exclusive root
\* latch taken above it, the thread holds the W latches of exactly the path from the
\* deepest safe page downwards, and every page an operation changes is W-latched by
\* the thread that changes it.
C32_PessimisticPass ==
  [](\A t \in Threads : SecondPassHeld(t)) /\ [][ModifiedUnderLatch]_vars


\* ------------------------------------------------------ claims: latch balance
\* Thread t holds no latch of a page in either mode.
NoPageLatch(t) == \A p \in DOMAIN latch : latch[p].w # t /\ latch[p].r[t] = 0

\* Thread t holds the root latch in neither mode.
NoRootHold(t) == root_latch_.w # t /\ root_latch_.r[t] = 0

\* C33: a thread whose Insert, Remove or GetValue has returned holds no page latch
\* and no hold of the root latch (the sibling latches of borrow and merge included),
\* and a thread to which Begin() or Begin(key) has returned its iterator holds no
\* hold of the root latch.
C33_LatchBalance ==
  \A t \in Threads :
    /\ th[t].pc = "idle" => NoPageLatch(t) /\ NoRootHold(t)
    /\ th[t].pc = "scan_loop" => NoRootHold(t)


\* -------------------------------------------------------- claims: pin balance
\* C34: when Insert, Remove or GetValue has returned, every page the operation
\* obtained through FetchPage or NewPage has been unpinned once (no pin is left, no
\* UnpinPage was issued for a page already given back), and every page it modified
\* has been unpinned with is_dirty = true.
C34_PinBalance ==
  (AllIdle /\ last.op \in {"Insert", "Remove", "GetValue"}) =>
    /\ last.pinned = << >>
    /\ ~last.over
    /\ last.cleanmod = {}


\* -------------------------------------------------------- claims: deleted set
\* The Remove that returned last had pages in its deleted set.
RemoveDeleted == AllIdle /\ last.op = "Remove" /\ last.deleted # {}

\* C35: the pages of Remove's deleted set go to DeletePage while the operation still
\* holds its write latches, every DeletePage succeeds, and when Remove has returned
\* the deleted set is empty and none of the pages is resident.
C35_DeletedSet ==
  RemoveDeleted =>
    /\ last.del_before_release
    /\ last.del_failed = {}
    /\ th[last.t].del = << >>
    /\ \A p \in last.deleted : pages[p] = ZeroPage


\* ------------------------------------------------------------- claims: borrow
\* The Remove that returned last has made a leaf borrow an entry, the two leaves
\* having had ascending keys.
LeafBorrowed ==
  /\ AllIdle /\ last.op = "Remove" /\ last.borrow # NoBorrow
  /\ IsLeafPage(last.borrow.pre_page)
  /\ KeysAscend(EntriesFrom(last.borrow.pre_page, 0))
  /\ KeysAscend(EntriesFrom(last.borrow.pre_sib, 0))

\* C36: a leaf borrows from the left sibling if that one has more than min_size
\* entries, else from the right one if that one has; afterwards exactly one entry
\* has moved from the lender to the leaf, both leaves have ascending keys, the parent
\* key at the index of the right one of the two equals that leaf's first key, and
\* the other parent keys (slots 1 .. size - 1) are as before.
C36_Borrow ==
  LeafBorrowed =>
    LET b == last.borrow
        page == pages[b.page]
        sib == pages[b.sib]
        parent == pages[b.parent]
        right_id == IF b.is_left THEN b.page ELSE b.sib
        ridx == ArrayIndex(b.pre_parent, right_id)
        before(p) == Range(EntriesFrom(p, 0))
    IN /\ b.pre_sib.size > GetMinSize(b.pre_sib)
       /\ ~b.is_left =>
            b.left = INVALID_PAGE_ID \/ pages[b.left].size <= GetMinSize(pages[b.left])
       /\ \E e \in before(b.pre_sib) :
            /\ before(sib) = before(b.pre_sib) \ {e}
            /\ before(page) = before(b.pre_page) \cup {e}
       /\ sib.size = b.pre_sib.size - 1
       /\ page.size = b.pre_page.size + 1
       /\ KeysAscend(EntriesFrom(page, 0))
       /\ KeysAscend(EntriesFrom(sib, 0))
       /\ parent.size = b.pre_parent.size
       /\ KeyAt(parent, ridx) = KeyAt(pages[right_id], 0)
       /\ \A i \in 1 .. parent.size - 1 :
            i # ridx => KeyAt(parent, i) = KeyAt(b.pre_parent, i)


\* -------------------------------------------------------------- claims: merge
\* The Remove that returned last has merged pages.
Merged == AllIdle /\ last.op = "Remove" /\ last.merges # << >>

\* The slot of a page from which its keys count: 0 in a leaf, 1 in an internal page.
FirstKeySlot(p) == IF IsLeafPage(p) THEN 0 ELSE 1

\* What the claim says of one MergePage call m on two pages with ascending keys,
\* those of the left page below those of the right page.
MergedRight(m) ==
  LET first == FirstKeySlot(m.pre_left)
  IN (/\ KeysAscend(EntriesFrom(m.pre_left, first))
      /\ KeysAscend(EntriesFrom(m.pre_right, first))
      /\ \A x \in Range(EntriesFrom(m.pre_left, first)),
            y \in Range(EntriesFrom(m.pre_right, first)) : x.k < y.k) =>
       /\ m.post_left.size = m.pre_left.size + m.pre_right.size
       /\ {e.v : e \in Range(EntriesFrom(m.post_left, 0))}
            = {e.v : e \in Range(EntriesFrom(m.pre_left, 0))
                            \cup Range(EntriesFrom(m.pre_right, 0))}
       /\ IsLeafPage(m.pre_left) =>
            Range(EntriesFrom(m.post_left, 0))
              = Range(EntriesFrom(m.pre_left, 0)) \cup Range(EntriesFrom(m.pre_right, 0))
       /\ KeysAscend(EntriesFrom(m.post_left, first))
       /\ IsLeafPage(m.pre_left) => m.post_left.next = m.pre_right.next
       /\ m.strays = {}
       /\ m.post_parent = RemoveAt(m.pre_parent, ArrayIndex(m.pre_parent, m.right))
       /\ m.right \in last.deleted
       /\ \/ pages[m.parent] = ZeroPage
          \/ IsRootPage(pages[m.parent])
          \/ pages[m.parent].size >= GetMinSize(pages[m.parent])

\* C37: a merge puts the entries of the right page of the pair into the left one,
\* which then holds the entries of both in ascending order; a merged leaf has the
\* right leaf's next_page_id; the children moved between internal pages name the left
\* page as parent; the parent loses exactly the slot of the right page; the right
\* page is in the deleted set; a parent that underflows is rebalanced in turn.
C37_Merge ==
  Merged => \A i \in 1 .. Len(last.merges) : MergedRight(last.merges[i])


\* ----------------------------------------------------- claims: root underflow
\* The Remove that returned last has gone through the root case of HandleUnderflow.
RootChanged == AllIdle /\ last.op = "Remove" /\ last.root_change # NoRootChange

\* C38: when Remove has emptied the root leaf the tree is empty and the old root is
\* in the deleted set; when it has left the root internal page with one child that
\* child is the root, with parent_page_id INVALID, and the old root is in the
\* deleted set.
C38_RootUnderflow ==
  RootChanged =>
    LET rc == last.root_change
    IN /\ rc.leaf => root_page_id_ = INVALID_PAGE_ID
       /\ ~rc.leaf => root_page_id_ = rc.child /\ IsRootPage(pages[rc.child])
       /\ rc.old \in last.deleted


\* ----------------------------------------------------------- claims: iterator
\* What the claim says of one step of thread t that advances its iterator: the next
\* slot of the leaf, else slot 0 of the next leaf, else the iterator End().
AdvanceOk(t) ==
  LET it == th[t].it
      leaf == pages[it.pg_id]
  IN (th[t].pc = "scan_loop" /\ ValidPage(pages, it.pg_id) /\ th'[t] # th[t]) =>
       /\ th'[t].pc # "crashed"
       /\ th'[t].it.pg_id = IF it.idx < leaf.size - 1 THEN it.pg_id
                            ELSE leaf.next
       /\ th'[t].it.idx = IF it.idx < leaf.size - 1 THEN it.idx + 1 ELSE 0

\* C39: operator++ moves an iterator from slot i < size - 1 to slot i + 1 of the
\* leaf, from the last slot to slot 0 of the leaf next_page_id names, and from the
\* last slot of the last leaf to page id INVALID, where it equals End().
C39_IteratorAdvance == [][\A t \in Threads : AdvanceOk(t)]_vars


\* ------------------------------------------------ claims: concurrent first insert
\* Two Insert calls with different keys are all that has run, both have returned, and
\* the one that returned last was called while the tree was empty: both were called
\* on the empty tree.
FirstInsertsDone ==
  /\ AllIdle /\ nops = 2 /\ ~anyRemove
  /\ Cardinality({k \in KeyDomain : insCount[k] = 1}) = 2
  /\ last.op = "Insert" /\ last.pre = NoPre /\ last.stored = {}

\* C40: of two Insert calls on the empty tree one creates the root leaf and the other
\* inserts into it (one page has been allocated and it is the root), and both keys
\* are in the tree afterwards.
C40_FirstInsert ==
  FirstInsertsDone =>
    /\ Len(pages) = 1 /\ root_page_id_ = 1
    /\ \A k \in KeyDomain :
         insCount[k] = 1 => GetValueOf(pages, root_page_id_, k) # NoVal

=============================================================================
